---- MODULE Spec2Model ----
(***************************************************************************)
(* gologin-mcp: an MCP server that loads an OpenAPI v3 document, lists one *)
(* tool per operation and dispatches tool invocations as HTTP requests.    *)
(*                                                                         *)
(* The repository holds five versions of the server.  Each is a value of   *)
(* the variable `variant`:                                                 *)
(*   "flat"       src/src/index.ts      lines 1-593   (flat arguments)     *)
(*   "validating" src/src/index.ts      lines 595-1406 (validator, batch)  *)
(*   "basic"      src/unnamed/part_000                                     *)
(*   "registered" src/unnamed/part_001  lines 1-611   (McpServer + zod)    *)
(*   "agent"      src/unnamed/part_001  lines 613-1351 (MyMCP agent)       *)
(*                                                                         *)
(* JavaScript strings are sequences of one-character strings, so that the  *)
(* regular-expression replacements, case conversions and URL encodings of  *)
(* the source are computed character by character.  The empty sequence is  *)
(* the empty string; an absent optional string is the empty sequence too,  *)
(* because the source only ever tests such strings for truthiness.         *)
(***************************************************************************)
EXTENDS Integers, Sequences, FiniteSets, TLC

VARIABLES
    variant,    \* which of the five versions of the server is running
    phase,      \* position of run()/init(): "constructed", "loaded", "connected", "aborted"
    apiSpec,    \* this.apiSpec (isNull = TRUE for null)
    baseUrl,    \* this.baseUrl
    tools,      \* the catalog: last ListTools answer, or the registered tools
    token,      \* this.token (this.props.bearerToken in the agent)
    call,       \* the last tool invocation received (its name and arguments)
    outcome,    \* what the handler did with it, and the HTTP request it issued
    conversion, \* the last schema conversion: its entry point, input and result
    inflight    \* the invocations being handled concurrently, one per slot

vars ==
    <<variant, phase, apiSpec, baseUrl, tools, token, call, outcome, conversion,
      inflight>>

-----------------------------------------------------------------------------
(* Characters and strings                                                  *)

LowerChars == {"a","b","c","d","e","f","g","h","i","j","k","l","m",
               "n","o","p","q","r","s","t","u","v","w","x","y","z"}

UpperChars == {"A","B","C","D","E","F","G","H","I","J","K","L","M",
               "N","O","P","Q","R","S","T","U","V","W","X","Y","Z"}

DigitChars == {"0","1","2","3","4","5","6","7","8","9"}

\* the character class [a-zA-Z0-9]
IsAlnum(c) == c \in LowerChars \cup UpperChars \cup DigitChars

LowerOf ==
    [c \in UpperChars |->
        CASE c = "A" -> "a" [] c = "B" -> "b" [] c = "C" -> "c" [] c = "D" -> "d"
          [] c = "E" -> "e" [] c = "F" -> "f" [] c = "G" -> "g" [] c = "H" -> "h"
          [] c = "I" -> "i" [] c = "J" -> "j" [] c = "K" -> "k" [] c = "L" -> "l"
          [] c = "M" -> "m" [] c = "N" -> "n" [] c = "O" -> "o" [] c = "P" -> "p"
          [] c = "Q" -> "q" [] c = "R" -> "r" [] c = "S" -> "s" [] c = "T" -> "t"
          [] c = "U" -> "u" [] c = "V" -> "v" [] c = "W" -> "w" [] c = "X" -> "x"
          [] c = "Y" -> "y" [] OTHER -> "z"]

UpperOf ==
    [c \in LowerChars |-> CHOOSE u \in UpperChars : LowerOf[u] = c]

\* String.prototype.toLowerCase
toLowerCase(s) ==
    [i \in 1..Len(s) |-> IF s[i] \in UpperChars THEN LowerOf[s[i]] ELSE s[i]]

\* String.prototype.toUpperCase
toUpperCase(s) ==
    [i \in 1..Len(s) |-> IF s[i] \in LowerChars THEN UpperOf[s[i]] ELSE s[i]]

\* s.replace(/[^a-zA-Z0-9]/g, '_')
replaceNonAlnum(s) ==
    [i \in 1..Len(s) |-> IF IsAlnum(s[i]) THEN s[i] ELSE "_"]

RECURSIVE collapseUnderscores(_)
\* s.replace(/_+/g, '_'): every run of underscores becomes one underscore
collapseUnderscores(s) ==
    IF Len(s) <= 1 THEN s
    ELSE IF s[1] = "_" /\ s[2] = "_" THEN collapseUnderscores(Tail(s))
    ELSE <<s[1]>> \o collapseUnderscores(Tail(s))

\* the positions at which pat occurs in s
Occurrences(s, pat) ==
    {i \in 1..(Len(s) - Len(pat) + 1) : SubSeq(s, i, i + Len(pat) - 1) = pat}

\* String.prototype.includes
includes(s, pat) == Occurrences(s, pat) # {}

\* s.replace(pat, rep) with a string pattern: only the first occurrence
replaceFirst(s, pat, rep) ==
    IF Occurrences(s, pat) = {} THEN s
    ELSE LET i == CHOOSE k \in Occurrences(s, pat) :
                      \A j \in Occurrences(s, pat) : k <= j
         IN  SubSeq(s, 1, i - 1) \o rep \o SubSeq(s, i + Len(pat), Len(s))

\* Array.prototype.includes on a sequence
Has(seq, x) == \E i \in 1..Len(seq) : seq[i] = x

RECURSIVE Flatten(_)
\* concatenation of a sequence of strings
Flatten(ss) == IF ss = <<>> THEN <<>> ELSE Head(ss) \o Flatten(Tail(ss))

-----------------------------------------------------------------------------
(* JavaScript values: undefined, numbers, strings, booleans and plain      *)
(* objects (ordered key/value entries, as Object.entries yields them).     *)
(* t is what typeof yields; n holds a number or a boolean (1 = true),      *)
(* s a string, e the entries of an object.                                 *)

JsUndefined == [t |-> "undefined", n |-> 0, s |-> <<>>, e |-> <<>>]

JsNum(k) == [t |-> "number", n |-> k, s |-> <<>>, e |-> <<>>]

JsStr(str) == [t |-> "string", n |-> 0, s |-> str, e |-> <<>>]

JsBool(b) == [t |-> "boolean", n |-> IF b THEN 1 ELSE 0, s |-> <<>>, e |-> <<>>]

JsObj(entries) == [t |-> "object", n |-> 0, s |-> <<>>, e |-> entries]

Entry(k, v) == [key |-> k, val |-> v]

\* ToBoolean: what `if (v)`, `!v`, `v && ..` and `v || ..` test
Truthy(v) ==
    CASE v.t = "undefined" -> FALSE
      [] v.t = "number"    -> v.n # 0
      [] v.t = "string"    -> v.s # <<>>
      [] v.t = "boolean"   -> v.n = 1
      [] OTHER             -> TRUE

\* a || b
OrElse(a, b) == IF Truthy(a) THEN a ELSE b

\* o[k]: the property k of an object, undefined when o has none (or is no object)
Get(o, k) ==
    IF \E i \in 1..Len(o.e) : o.e[i].key = k
    THEN o.e[CHOOSE i \in 1..Len(o.e) : o.e[i].key = k].val
    ELSE JsUndefined

\* o[k] = v on the entries of an object: an own key keeps its place
SetKey(entries, k, v) ==
    IF \E i \in 1..Len(entries) : entries[i].key = k
    THEN [i \in 1..Len(entries) |->
            IF entries[i].key = k THEN Entry(k, v) ELSE entries[i]]
    ELSE Append(entries, Entry(k, v))

Keys(entries) == [i \in 1..Len(entries) |-> entries[i].key]

DigitOf == [d \in 0..9 |->
    CASE d = 0 -> "0" [] d = 1 -> "1" [] d = 2 -> "2" [] d = 3 -> "3" [] d = 4 -> "4"
      [] d = 5 -> "5" [] d = 6 -> "6" [] d = 7 -> "7" [] d = 8 -> "8" [] OTHER -> "9"]

RECURSIVE NumberToString(_)
\* Number.prototype.toString for the non-negative integers the model uses
NumberToString(k) ==
    IF k < 10 THEN <<DigitOf[k]>>
    ELSE NumberToString(k \div 10) \o <<DigitOf[k % 10]>>

\* String(v), the coercion applied by template literals, encodeURIComponent
\* and URLSearchParams.append
JsString(v) ==
    CASE v.t = "undefined" -> <<"u","n","d","e","f","i","n","e","d">>
      [] v.t = "number"    -> NumberToString(v.n)
      [] v.t = "string"    -> v.s
      [] v.t = "boolean"   -> IF v.n = 1 THEN <<"t","r","u","e">>
                              ELSE <<"f","a","l","s","e">>
      [] OTHER             -> <<"[","o","b","j","e","c","t"," ",
                                "O","b","j","e","c","t","]">>

\* the characters encodeURIComponent leaves alone besides [a-zA-Z0-9]
UriUnreservedMarks == {"-", "_", ".", "!", "~", "*", "'", "(", ")"}

\* the characters application/x-www-form-urlencoded leaves alone besides [a-zA-Z0-9]
FormUnreservedMarks == {"*", "-", ".", "_"}

\* the percent-encoding of the other ASCII characters the model uses
PercentOf(c) ==
    CASE c = " "  -> <<"%","2","0">>
      [] c = "\"" -> <<"%","2","2">>
      [] c = "#"  -> <<"%","2","3">>
      [] c = "$"  -> <<"%","2","4">>
      [] c = "%"  -> <<"%","2","5">>
      [] c = "&"  -> <<"%","2","6">>
      [] c = "+"  -> <<"%","2","B">>
      [] c = ","  -> <<"%","2","C">>
      [] c = "/"  -> <<"%","2","F">>
      [] c = ":"  -> <<"%","3","A">>
      [] c = "="  -> <<"%","3","D">>
      [] c = "?"  -> <<"%","3","F">>
      [] c = "["  -> <<"%","5","B">>
      [] c = "]"  -> <<"%","5","D">>
      [] c = "{"  -> <<"%","7","B">>
      [] c = "}"  -> <<"%","7","D">>
      [] c = "!"  -> <<"%","2","1">>
      [] c = "'"  -> <<"%","2","7">>
      [] c = "("  -> <<"%","2","8">>
      [] c = ")"  -> <<"%","2","9">>
      [] OTHER    -> <<"%","7","E">>

\* encodeURIComponent(String(v))
encodeURIComponent(str) ==
    Flatten([i \in 1..Len(str) |->
        IF IsAlnum(str[i]) \/ str[i] \in UriUnreservedMarks
        THEN <<str[i]>> ELSE PercentOf(str[i])])

\* the serializer of URLSearchParams for one name or value
formEncode(str) ==
    Flatten([i \in 1..Len(str) |->
        IF IsAlnum(str[i]) \/ str[i] \in FormUnreservedMarks THEN <<str[i]>>
        ELSE IF str[i] = " " THEN <<"+">>
        ELSE PercentOf(str[i])])

RECURSIVE searchParamsToString(_)
\* URLSearchParams.prototype.toString over the appended (name, value) pairs
searchParamsToString(pairs) ==
    IF pairs = <<>> THEN <<>>
    ELSE formEncode(pairs[1].key) \o <<"=">> \o formEncode(pairs[1].val)
         \o (IF Len(pairs) > 1 THEN <<"&">> ELSE <<>>)
         \o searchParamsToString(Tail(pairs))

RECURSIVE stringifyEntries(_)
RECURSIVE stringify(_)
\* JSON.stringify(v) without indentation, for the values the model uses
stringify(v) ==
    CASE v.t = "number"  -> NumberToString(v.n)
      [] v.t = "string"  -> <<"\"">> \o v.s \o <<"\"">>
      [] v.t = "boolean" -> JsString(v)
      [] OTHER           -> <<"{">> \o stringifyEntries(v.e) \o <<"}">>

stringifyEntries(entries) ==
    IF entries = <<>> THEN <<>>
    ELSE <<"\"">> \o entries[1].key \o <<"\"", ":">> \o stringify(entries[1].val)
         \o (IF Len(entries) > 1 THEN <<",">> ELSE <<>>)
         \o stringifyEntries(Tail(entries))

-----------------------------------------------------------------------------
(* The OpenAPI document                                                    *)
(*                                                                         *)
(* apiSpec.paths is a sequence of [path, item] in key order; an item is a  *)
(* sequence of [method, op] in key order (an item may hold keys that are   *)
(* no HTTP verb, such as "parameters", and a verb whose value is null).    *)

NullSpec ==
    [isNull |-> TRUE, servers |-> <<>>, hasPaths |-> FALSE, paths |-> <<>>,
     components |-> JsUndefined]

Document(servers, paths) ==
    [isNull |-> FALSE, servers |-> servers, hasPaths |-> TRUE, paths |-> paths,
     components |-> JsUndefined]

\* a document without a `paths` key
PathlessDocument(servers) ==
    [isNull |-> FALSE, servers |-> servers, hasPaths |-> FALSE, paths |-> <<>>,
     components |-> JsUndefined]

\* the document with a `components` object (a JavaScript value)
WithComponents(doc, components) == [doc EXCEPT !.components = components]

\* a parameter's schema object: absent, or with an optional type and enum
NoSchema == [present |-> FALSE, type |-> "", enum |-> <<>>]

Schema(type, enum) == [present |-> TRUE, type |-> type, enum |-> enum]

\* an entry of operation.parameters; isRef marks a {$ref: ...} entry
Parameter(name, in, required, schema) ==
    [isRef |-> FALSE, name |-> name, in |-> in, required |-> required,
     schema |-> schema]

RefParameter ==
    [isRef |-> TRUE, name |-> <<>>, in |-> "", required |-> FALSE, schema |-> NoSchema]

\* operation.requestBody: absent, a {$ref}, or an object whose content may
\* hold an 'application/json' entry with a schema
NoRequestBody == [present |-> FALSE, isRef |-> FALSE, jsonSchema |-> FALSE]

RefRequestBody == [present |-> TRUE, isRef |-> TRUE, jsonSchema |-> FALSE]

JsonRequestBody == [present |-> TRUE, isRef |-> FALSE, jsonSchema |-> TRUE]

OtherRequestBody == [present |-> TRUE, isRef |-> FALSE, jsonSchema |-> FALSE]

Operation(operationId, summary, parameters, requestBody) ==
    [isNull |-> FALSE, operationId |-> operationId, summary |-> summary,
     parameters |-> parameters, requestBody |-> requestBody]

NullOperation ==
    [isNull |-> TRUE, operationId |-> <<>>, summary |-> <<>>,
     parameters |-> <<>>, requestBody |-> NoRequestBody]

Method(method, op) == [method |-> method, op |-> op]

PathItem(path, item) == [path |-> path, item |-> item]

\* ['get', 'post', 'put', 'delete', 'patch', 'head', 'options']
KnownVerbs ==
    {<<"g","e","t">>, <<"p","o","s","t">>, <<"p","u","t">>, <<"d","e","l","e","t","e">>, <<"p","a","t","c","h">>, <<"h","e","a","d">>, <<"o","p","t","i","o","n","s">>}

RECURSIVE ItemOperations(_, _)
\* the inner loop's iteration: the entries of one path item that pass
\* `[...].includes(method) && operation`
ItemOperations(path, item) ==
    IF item = <<>> THEN <<>>
    ELSE (IF item[1].method \in KnownVerbs /\ ~item[1].op.isNull
          THEN <<[path |-> path, method |-> item[1].method, op |-> item[1].op]>>
          ELSE <<>>)
         \o ItemOperations(path, Tail(item))

RECURSIVE Operations(_)
\* the operations the two nested for-of loops over Object.entries visit, in
\* the order they visit them
Operations(paths) ==
    IF paths = <<>> THEN <<>>
    ELSE ItemOperations(paths[1].path, paths[1].item) \o Operations(Tail(paths))

-----------------------------------------------------------------------------
(* Tool names                                                              *)

Variants == {"flat", "validating", "basic", "registered", "agent"}

\* `${method}_${path.replace(/[^a-zA-Z0-9]/g, '_')}`
methodPathName(method, path) == method \o <<"_">> \o replaceNonAlnum(path)

\* `${method}${path.replace('browser', 'profile').replace(/[^a-zA-Z0-9]/g, '_')}`
profileName(method, path) ==
    method \o replaceNonAlnum(replaceFirst(path, <<"b","r","o","w","s","e","r">>, <<"p","r","o","f","i","l","e">>))

\* summary.replace(/[^a-zA-Z0-9]/g, '_').replace(/_+/g, '_').toLowerCase()
summaryName(summary) == toLowerCase(collapseUnderscores(replaceNonAlnum(summary)))

\* op.operationId || `${method}_${...}`
operationIdName(method, path, op) ==
    IF op.operationId # <<>> THEN op.operationId ELSE methodPathName(method, path)

\* the name under which the catalog lists (or registers) an operation
toolName(v, method, path, op) ==
    CASE v = "flat"       -> profileName(method, path)
      [] v = "validating" -> IF op.summary # <<>> THEN summaryName(op.summary)
                             ELSE operationIdName(method, path, op)
      [] v = "agent"      -> replaceFirst(operationIdName(method, path, op), <<"[","0","]">>, <<>>)
      [] OTHER            -> operationIdName(method, path, op)

\* the name callDynamicTool recomputes for an operation
generatedToolName(v, method, path, op) ==
    CASE v \in {"flat", "registered"} -> profileName(method, path)
      [] v = "validating" -> IF op.summary # <<>> THEN summaryName(op.summary)
                             ELSE operationIdName(method, path, op)
      [] v = "agent"      -> IF replaceFirst(op.operationId, <<"[","0","]">>, <<>>) # <<>>
                             THEN replaceFirst(op.operationId, <<"[","0","]">>, <<>>)
                             ELSE methodPathName(method, path)
      [] OTHER            -> operationIdName(method, path, op)

\* the name extractParametersFromArgs recomputes for an operation ("flat")
decoderToolName(method, path, op) == operationIdName(method, path, op)

\* const excludedTools = [...]
excludedTools(v) ==
    IF v = "validating"
    THEN {<<"c","r","e","a","t","e","_","p","r","o","f","i","l","e">>, <<"c","r","e","a","t","e","_","p","r","o","f","i","l","e","_","w","i","t","h","_","p","a","r","t","i","a","l","_","p","a","r","a","m","e","t","e","r","s">>}
    ELSE {}

BatchOperationsName == <<"b","a","t","c","h","_","o","p","e","r","a","t","i","o","n","s">>

-----------------------------------------------------------------------------
(* The catalog                                                             *)

\* one ToolDescriptor; path and method tell which operation it was built
\* from (both empty for the hand-written batch_operations tool)
Descriptor(name, method, path) == [name |-> name, method |-> method, path |-> path]

\* a catalog builder without the exclusion list
listsEveryOperation(v, o) == TRUE

\* whether the catalog builder pushes (registers) a tool for an operation
Listed(v, o) == toolName(v, o.method, o.path, o.op) \notin excludedTools(v)

RECURSIVE OperationTools(_, _)
\* the loop body of the catalog builder, over the visited operations
OperationTools(v, ops) ==
    IF ops = <<>> THEN <<>>
    ELSE (IF Listed(v, ops[1])
          THEN <<Descriptor(toolName(v, ops[1].method, ops[1].path, ops[1].op),
                            ops[1].method, ops[1].path)>>
          ELSE <<>>)
         \o OperationTools(v, Tail(ops))

\* the tools array of the ListTools handler / of setupHandlers
Tools(v, spec) ==
    (IF v = "validating" THEN <<Descriptor(BatchOperationsName, <<>>, <<>>)>> ELSE <<>>)
    \o (IF ~spec.isNull /\ spec.hasPaths
        THEN OperationTools(v, Operations(spec.paths)) ELSE <<>>)

ToolNames(ts) == {ts[i].name : i \in 1..Len(ts)}

-----------------------------------------------------------------------------
(* Parameter extraction                                                    *)

RECURSIVE matchTokens(_)
\* path.match(/\{([^}]+)\}/g)?.map(p => p.slice(1, -1)) || []
\* a match starts at a '{' that is followed by one character or more other
\* than '}' and then by a '}'; the search resumes after that '}'
matchTokens(s) ==
    IF s = <<>> THEN <<>>
    ELSE LET closing == {j \in 2..Len(s) : s[j] = "}"}
         IN  IF s[1] = "{" /\ closing # {} /\ 2 \notin closing
             THEN LET j == CHOOSE k \in closing : \A m \in closing : k <= m
                  IN  <<SubSeq(s, 2, j - 1)>> \o matchTokens(SubSeq(s, j + 1, Len(s)))
             ELSE matchTokens(Tail(s))

\* the value extractPathParameters/extractQueryParameters store for a
\* declared parameter (only its type in the validating variant)
declaredProperty(v, parameter) ==
    IF v = "validating"
    THEN Schema(IF parameter.schema.present /\ parameter.schema.type # ""
                THEN parameter.schema.type ELSE "string", <<>>)
    ELSE IF parameter.schema.present THEN parameter.schema
    ELSE Schema("string", <<>>)

RECURSIVE declaredParameters(_, _, _, _)
\* operation.parameters.forEach(...) of extractPathParameters (where = "path")
\* and extractQueryParameters (where = "query"), from the accumulator acc
declaredParameters(v, parameters, where, acc) ==
    IF parameters = <<>> THEN acc
    ELSE LET p == parameters[1]
         IN  declaredParameters(v, Tail(parameters), where,
                IF ~p.isRef /\ p.in = where
                THEN [properties |-> SetKey(acc.properties, p.name, declaredProperty(v, p)),
                      required   |-> IF p.required THEN Append(acc.required, p.name)
                                     ELSE acc.required]
                ELSE acc)

RECURSIVE templateParameters(_, _)
\* pathParamNames.forEach(...): a token without a property becomes a
\* required string parameter
templateParameters(names, acc) ==
    IF names = <<>> THEN acc
    ELSE templateParameters(Tail(names),
            IF ~Has(Keys(acc.properties), names[1])
            THEN [properties |-> SetKey(acc.properties, names[1], Schema("string", <<>>)),
                  required   |-> Append(acc.required, names[1])]
            ELSE acc)

NoParameters == [properties |-> <<>>, required |-> <<>>]

extractPathParameters(v, operation, path) ==
    templateParameters(matchTokens(path),
        declaredParameters(v, operation.parameters, "path", NoParameters))

extractQueryParameters(v, operation) ==
    declaredParameters(v, operation.parameters, "query", NoParameters)

\* extractRequestBodySchema(operation) is not null
hasRequestBodySchema(operation) ==
    /\ operation.requestBody.present
    /\ ~operation.requestBody.isRef
    /\ operation.requestBody.jsonSchema

RECURSIVE extractRequiredHeaders(_)
extractRequiredHeaders(parameters) ==
    IF parameters = <<>> THEN <<>>
    ELSE (IF ~parameters[1].isRef /\ parameters[1].in = "header" /\ parameters[1].required
          THEN <<parameters[1].name>> ELSE <<>>)
         \o extractRequiredHeaders(Tail(parameters))

-----------------------------------------------------------------------------
(* The validator (validating variant)                                      *)

\* one entry of the errors array: the message's fixed text and the name(s)
\* it is about
Message(text, arg) == [text |-> text, arg |-> arg]

RECURSIVE join(_, _)
\* Array.prototype.join
join(strs, sep) ==
    IF strs = <<>> THEN <<>>
    ELSE IF Len(strs) = 1 THEN strs[1]
    ELSE strs[1] \o sep \o join(Tail(strs), sep)

RECURSIVE trimSpaces(_)
trimSpaces(s) ==
    IF s # <<>> /\ s[1] = " " THEN trimSpaces(Tail(s))
    ELSE IF s # <<>> /\ s[Len(s)] = " " THEN trimSpaces(SubSeq(s, 1, Len(s) - 1))
    ELSE s

\* isNaN(Number(value)); for strings, exact on strings of letters, digits
\* and spaces (no sign, fraction, exponent or radix prefix)
isNaNNumber(value) ==
    CASE value.t = "number"  -> FALSE
      [] value.t = "boolean" -> FALSE
      [] value.t = "string"  ->
            \E i \in 1..Len(trimSpaces(value.s)) : trimSpaces(value.s)[i] \notin DigitChars
      [] OTHER -> TRUE

\* validateParameterValue: the message it returns, as a sequence of at most
\* one message (empty for null); the enum is checked before the type, and a
\* schema without enum has enum = <<>>
valueErrors(paramName, value, schema) ==
    IF schema.enum # <<>> /\ ~Has(schema.enum, value)
    THEN <<Message("Invalid value for parameter: ", paramName)>>
    ELSE IF \/ schema.type = "number" /\ value.t # "number" /\ isNaNNumber(value)
            \/ schema.type = "boolean" /\ value.t # "boolean"
               /\ value # JsStr(<<"t","r","u","e">>) /\ value # JsStr(<<"f","a","l","s","e">>)
            \/ schema.type = "string" /\ value.t # "string"
    THEN <<Message("Invalid type for parameter: ", paramName)>>
    ELSE <<>>

RECURSIVE missingRequired(_, _, _)
\* for (const requiredParam of required) if (!given[requiredParam]) errors.push(...)
missingRequired(required, given, text) ==
    IF required = <<>> THEN <<>>
    ELSE (IF ~Truthy(Get(given, required[1]))
          THEN <<Message(text, required[1])>> ELSE <<>>)
         \o missingRequired(Tail(required), given, text)

\* the path and the query block of validateParameters
requiredErrors(required, given, textAll, textOne) ==
    IF required = <<>> THEN <<>>
    ELSE IF ~Truthy(given) THEN <<Message(textAll, join(required, <<","," ">>))>>
    ELSE missingRequired(required, given, textOne)

\* headers[name] || headers[name.toLowerCase()]
headerValue(headers, name) == OrElse(Get(headers, name), Get(headers, toLowerCase(name)))

RECURSIVE headerErrors(_, _)
headerErrors(requiredHeaders, headers) ==
    IF requiredHeaders = <<>> THEN <<>>
    ELSE (IF ~Truthy(Get(headers, requiredHeaders[1]))
             /\ ~Truthy(Get(headers, toLowerCase(requiredHeaders[1])))
          THEN <<Message("Missing required header: ", requiredHeaders[1])>> ELSE <<>>)
         \o headerErrors(Tail(requiredHeaders), headers)

\* the value validateParameters looks up for a declared parameter
suppliedValue(parameter, parameters, headers) ==
    IF parameter.in = "path" /\ Truthy(parameters.path)
    THEN Get(parameters.path, parameter.name)
    ELSE IF parameter.in = "query" /\ Truthy(parameters.query)
    THEN Get(parameters.query, parameter.name)
    ELSE IF parameter.in = "header" THEN headerValue(headers, parameter.name)
    ELSE JsUndefined

RECURSIVE parameterErrors(_, _, _)
\* operation.parameters.forEach(...) of validateParameters
parameterErrors(declared, parameters, headers) ==
    IF declared = <<>> THEN <<>>
    ELSE (IF /\ ~declared[1].isRef
             /\ suppliedValue(declared[1], parameters, headers) # JsUndefined
             /\ declared[1].schema.present
          THEN valueErrors(declared[1].name,
                           suppliedValue(declared[1], parameters, headers),
                           declared[1].schema)
          ELSE <<>>)
         \o parameterErrors(Tail(declared), parameters, headers)

\* a validator that returns at the first check that fails
validateUntilFirstFailure(operation, path, parameters, headers) ==
    LET pathErrors == requiredErrors(
                        extractPathParameters("validating", operation, path).required,
                        parameters.path,
                        "Missing required path parameters: ",
                        "Missing required path parameter: ")
        queryErrors == requiredErrors(
                        extractQueryParameters("validating", operation).required,
                        parameters.query,
                        "Missing required query parameters: ",
                        "Missing required query parameter: ")
        bodyErrors == IF hasRequestBodySchema(operation) /\ ~Truthy(parameters.body)
                      THEN <<Message("Missing required request body", <<>>)>> ELSE <<>>
        headErrors == headerErrors(extractRequiredHeaders(operation.parameters), headers)
    IN  IF pathErrors # <<>> THEN pathErrors
        ELSE IF queryErrors # <<>> THEN queryErrors
        ELSE IF bodyErrors # <<>> THEN bodyErrors
        ELSE IF headErrors # <<>> THEN headErrors
        ELSE parameterErrors(operation.parameters, parameters, headers)

validateParameters(operation, path, parameters, headers) ==
    requiredErrors(extractPathParameters("validating", operation, path).required,
                   parameters.path,
                   "Missing required path parameters: ",
                   "Missing required path parameter: ")
    \o requiredErrors(extractQueryParameters("validating", operation).required,
                      parameters.query,
                      "Missing required query parameters: ",
                      "Missing required query parameter: ")
    \o (IF hasRequestBodySchema(operation) /\ ~Truthy(parameters.body)
        THEN <<Message("Missing required request body", <<>>)>> ELSE <<>>)
    \o headerErrors(extractRequiredHeaders(operation.parameters), headers)
    \o parameterErrors(operation.parameters, parameters, headers)

-----------------------------------------------------------------------------
(* The dispatcher                                                          *)

\* CallParameters: each of path, query and body is a JavaScript value,
\* undefined when absent
CallParameters(path, query, body) == [path |-> path, query |-> query, body |-> body]

RECURSIVE scanLast(_, _, _)
\* a lookup without the breaks: the last match overwrites the earlier ones
scanLast(names, requested, i) ==
    IF i > Len(names) THEN 0
    ELSE IF scanLast(names, requested, i + 1) # 0 THEN scanLast(names, requested, i + 1)
    ELSE IF names[i] = requested THEN i
    ELSE 0

RECURSIVE scan(_, _, _)
\* the two nested loops with their breaks: the position, among the visited
\* operations, of the first one whose name equals requested (0 when none)
scan(names, requested, i) ==
    IF i > Len(names) THEN 0
    ELSE IF names[i] = requested THEN i
    ELSE scan(names, requested, i + 1)

\* the lookup of callDynamicTool over the visited operations
findOperation(v, ops, requested) ==
    scan([i \in 1..Len(ops) |->
            generatedToolName(v, ops[i].method, ops[i].path, ops[i].op)],
         requested, 1)

\* the lookup of extractParametersFromArgs over the visited operations
findDecodedOperation(ops, requested) ==
    scan([i \in 1..Len(ops) |-> decoderToolName(ops[i].method, ops[i].path, ops[i].op)],
         requested, 1)

RECURSIVE decodeDeclared(_, _, _, _)
\* operation.parameters.forEach(...) of extractParametersFromArgs for one
\* location: the declared parameters of that location found in args
decodeDeclared(declared, where, args, acc) ==
    IF declared = <<>> THEN acc
    ELSE decodeDeclared(Tail(declared), where, args,
            IF /\ ~declared[1].isRef
               /\ declared[1].in = where
               /\ Get(args, declared[1].name) # JsUndefined
            THEN SetKey(acc, declared[1].name,
                        JsStr(JsString(Get(args, declared[1].name))))
            ELSE acc)

RECURSIVE decodeTemplate(_, _, _)
\* pathParamNames.forEach(...) of extractParametersFromArgs
decodeTemplate(names, args, acc) ==
    IF names = <<>> THEN acc
    ELSE decodeTemplate(Tail(names), args,
            IF Get(args, names[1]) # JsUndefined /\ ~Truthy(Get(JsObj(acc), names[1]))
            THEN SetKey(acc, names[1], JsStr(JsString(Get(args, names[1]))))
            ELSE acc)

\* the entries of args whose key is not in used
remainingArgs(entries, used) ==
    SelectSeq(entries, LAMBDA en : ~Has(used, en.key))

\* extractParametersFromArgs ("flat"): path and query parameters are picked
\* out of the flat arguments by name, the rest is the body
extractParametersFromArgs(spec, requested, args) ==
    IF spec.isNull \/ ~spec.hasPaths
       \/ findDecodedOperation(Operations(spec.paths), requested) = 0
    THEN CallParameters(JsUndefined, JsUndefined, args)
    ELSE LET o == Operations(spec.paths)[findDecodedOperation(Operations(spec.paths), requested)]
             pathParams  == decodeTemplate(matchTokens(o.path), args,
                               decodeDeclared(o.op.parameters, "path", args, <<>>))
             queryParams == decodeDeclared(o.op.parameters, "query", args, <<>>)
             bodyParams  == remainingArgs(args.e, Keys(pathParams) \o Keys(queryParams))
         IN  CallParameters(
                IF pathParams # <<>> THEN JsObj(pathParams) ELSE JsUndefined,
                IF queryParams # <<>> THEN JsObj(queryParams) ELSE JsUndefined,
                IF bodyParams # <<>> THEN JsObj(bodyParams) ELSE JsUndefined)

\* an HTTP request handed to fetch
NoRequest ==
    [sent |-> FALSE, url |-> <<>>, method |-> <<>>, headers |-> <<>>,
     hasBody |-> FALSE, body |-> <<>>]

Request(url, method, headers, hasBody, body) ==
    [sent |-> TRUE, url |-> url, method |-> method, headers |-> headers,
     hasBody |-> hasBody, body |-> body]

\* the value of the Authorization header the dispatcher sets
authorization(v, tok) ==
    IF v \in {"registered", "agent"} THEN tok ELSE <<"B","e","a","r","e","r"," ">> \o tok

\* a dispatcher that spreads the caller's headers last, so that the caller's
\* User-Agent and Authorization entries survive
callerHeadersWin(v, tok, headers) ==
    LET own == <<Entry(<<"U","s","e","r","-","A","g","e","n","t">>, JsStr(<<"g","o","l","o","g","i","n","-","m","c","p">>))>>
               \o (IF tok # <<>>
                   THEN <<Entry(<<"A","u","t","h","o","r","i","z","a","t","i","o","n">>, JsStr(authorization(v, tok)))>>
                   ELSE <<>>)
        RECURSIVE spread(_, _)
        spread(acc, entries) ==
            IF entries = <<>> THEN acc
            ELSE spread(SetKey(acc, entries[1].key, entries[1].val), Tail(entries))
    IN  spread(own, headers.e)

\* { ...headers }, then User-Agent, then Authorization when a token is set
baseHeaders(v, tok, headers) ==
    LET withAgent == SetKey(headers.e, <<"U","s","e","r","-","A","g","e","n","t">>, JsStr(<<"g","o","l","o","g","i","n","-","m","c","p">>))
    IN  IF tok # <<>>
        THEN SetKey(withAgent, <<"A","u","t","h","o","r","i","z","a","t","i","o","n">>, JsStr(authorization(v, tok)))
        ELSE withAgent

RECURSIVE substitutePath(_, _)
\* for (const [key, value] of Object.entries(parameters.path))
\*   url = url.replace(`{${key}}`, encodeURIComponent(value))
substitutePath(url, entries) ==
    IF entries = <<>> THEN url
    ELSE substitutePath(
            replaceFirst(url, <<"{">> \o entries[1].key \o <<"}">>,
                         encodeURIComponent(JsString(entries[1].val))),
            Tail(entries))

\* a dispatcher that appends every query value in every version
appendsEveryValue(v, value) == TRUE

\* whether the dispatcher appends a query parameter with this value
appendsQueryValue(v, value) ==
    IF v \in {"flat", "registered", "agent"} THEN Truthy(value) ELSE TRUE

RECURSIVE appendedQuery(_, _)
\* the (name, value) pairs appended to the URLSearchParams
appendedQuery(v, entries) ==
    IF entries = <<>> THEN <<>>
    ELSE (IF appendsQueryValue(v, entries[1].val)
          THEN <<Entry(entries[1].key, JsString(entries[1].val))>> ELSE <<>>)
         \o appendedQuery(v, Tail(entries))

\* the URL of the request
requestUrl(v, base, targetPath, parameters) ==
    LET substituted == IF Truthy(parameters.path)
                       THEN substitutePath(base \o targetPath, parameters.path.e)
                       ELSE base \o targetPath
        queryString == IF Truthy(parameters.query)
                       THEN searchParamsToString(appendedQuery(v, parameters.query.e))
                       ELSE <<>>
    IN  IF queryString # <<>> THEN substituted \o <<"?">> \o queryString
        ELSE substituted

\* the verbs for which the dispatcher sends a body
bodyMethods(v) ==
    IF v \in {"flat", "registered"}
    THEN {<<"P","O","S","T">>, <<"P","U","T">>, <<"P","A","T","C","H">>, <<"D","E","L","E","T","E">>}
    ELSE {<<"P","O","S","T">>, <<"P","U","T">>, <<"P","A","T","C","H">>}

\* parameters.body && [...].includes(targetMethod)
sendsBody(v, targetMethod, body) == Truthy(body) /\ targetMethod \in bodyMethods(v)

\* the request callDynamicTool builds for the selected operation
buildRequest(v, base, tok, o, parameters, headers) ==
    LET targetMethod == toUpperCase(o.method)
        withBody     == sendsBody(v, targetMethod, parameters.body)
    IN  Request(requestUrl(v, base, o.path, parameters),
                targetMethod,
                IF withBody
                THEN SetKey(baseHeaders(v, tok, headers), <<"C","o","n","t","e","n","t","-","T","y","p","e">>,
                            JsStr(<<"a","p","p","l","i","c","a","t","i","o","n","/","j","s","o","n">>))
                ELSE baseHeaders(v, tok, headers),
                withBody,
                IF withBody THEN stringify(parameters.body) ELSE <<>>)

\* which operation an invocation selected
NoSelection == [found |-> FALSE, path |-> <<>>, method |-> <<>>]

Selection(o) == [found |-> TRUE, path |-> o.path, method |-> o.method]

\* what callDynamicTool did: it threw `error`, or returned the validation
\* payload (details), or returned the report of the response
Result(kind, error, selection, details, req) ==
    [kind |-> kind, error |-> error, selection |-> selection, details |-> details,
     request |-> req]

callDynamicTool(v, spec, base, tok, requested, parameters, headers, fetchOk) ==
    IF spec.isNull \/ ~spec.hasPaths
    THEN Result("threw", "API specification not loaded", NoSelection, <<>>, NoRequest)
    ELSE LET ops == Operations(spec.paths)
             i   == findOperation(v, ops, requested)
         IN  IF i = 0
             THEN Result("threw", "Tool not found", NoSelection, <<>>, NoRequest)
             ELSE IF v = "validating"
                     /\ validateParameters(ops[i].op, ops[i].path, parameters, headers) # <<>>
             THEN Result("validation", "Parameter validation failed", Selection(ops[i]),
                         validateParameters(ops[i].op, ops[i].path, parameters, headers),
                         NoRequest)
             ELSE Result(IF fetchOk THEN "report" ELSE "threw",
                         IF fetchOk THEN "" ELSE "API call failed",
                         Selection(ops[i]), <<>>,
                         buildRequest(v, base, tok, ops[i], parameters, headers))

-----------------------------------------------------------------------------
(* The invocation handlers                                                 *)

\* headers: Record<string, string> = {} (a default parameter value)
headersOrEmpty(h) == IF h = JsUndefined THEN JsObj(<<>>) ELSE h

\* body: args.body || (args.parameters ? args.parameters : undefined)
nestedBody(args) ==
    IF Truthy(Get(args, <<"b","o","d","y">>)) THEN Get(args, <<"b","o","d","y">>)
    ELSE IF Truthy(Get(args, <<"p","a","r","a","m","e","t","e","r","s">>)) THEN Get(args, <<"p","a","r","a","m","e","t","e","r","s">>)
    ELSE JsUndefined

\* the CallParameters the handler decodes from the arguments
decodeArguments(v, spec, requested, args) ==
    CASE v = "flat" -> extractParametersFromArgs(spec, requested, args)
      [] v = "registered" ->
            CallParameters(Get(args, <<"p","a","t","h">>), Get(args, <<"q","u","e","r","y">>), Get(args, <<"b","o","d","y">>))
      [] OTHER ->
            CallParameters(Get(args, <<"p","a","t","h">>), Get(args, <<"q","u","e","r","y">>), nestedBody(args))

\* the headers the handler passes on
decodeHeaders(v, args) ==
    IF v = "registered" THEN JsObj(<<>>)
    ELSE headersOrEmpty(Get(args, <<"h","e","a","d","e","r","s">>))

\* whether the handler wraps the dispatch in try/catch
catchesErrors(v) == v \in {"flat", "validating", "basic"}

\* the handler of one tools/call request: what it returns or raises
handleCall(v, spec, base, tok, requested, args, fetchOk) ==
    IF catchesErrors(v) /\ ~Truthy(args)
    THEN Result("raised", "No arguments provided", NoSelection, <<>>, NoRequest)
    ELSE LET r == callDynamicTool(v, spec, base, tok, requested,
                                  decodeArguments(v, spec, requested, args),
                                  decodeHeaders(v, args), fetchOk)
         IN  IF r.kind = "threw"
             THEN [r EXCEPT !.kind = IF catchesErrors(v) THEN "errorText" ELSE "raised"]
             ELSE r

-----------------------------------------------------------------------------
(* batch_operations (validating version)                                    *)

\* minimum and maximum of `count` in the input schema of batch_operations
CountMinimum == 1

CountMaximum == 50

\* a summary of handleBatchOperations next to the fields of a Result: the
\* status, whether the switch completed, and for every item of the loop its
\* index, whether it went to results ('created') or to errors, and the
\* dispatch it made
BatchResult(status, completed, items) ==
    [kind |-> "batch", error |-> "", selection |-> NoSelection, details |-> <<>>,
     request |-> NoRequest, status |-> status, completed |-> completed,
     items |-> items]

\* { ...template, name: `${namePrefix || 'Profile'} ${i + 1}` }
profileData(template, namePrefix, i) ==
    JsObj(SetKey(IF template.t = "object" THEN template.e ELSE <<>>, <<"n","a","m","e">>,
                 JsStr((IF Truthy(namePrefix) THEN JsString(namePrefix) ELSE <<"P","r","o","f","i","l","e">>)
                       \o <<" ">> \o NumberToString(i))))

\* one round of the loop, i counting from 1: the dispatch raises and the
\* catch records an error, or its answer is parsed and recorded as created
batchItem(spec, base, tok, template, namePrefix, i, fetchOk) ==
    LET r == callDynamicTool("validating", spec, base, tok,
                             <<"c","r","e","a","t","e","_","p","r","o","f","i","l","e","_","w","i","t","h","_","t","e","m","p","l","a","t","e","s">>,
                             CallParameters(JsUndefined, JsUndefined,
                                            profileData(template, namePrefix, i)),
                             JsObj(<<>>), fetchOk)
    IN  [index |-> i, status |-> IF r.kind = "threw" THEN "error" ELSE "created",
         dispatch |-> r]

\* if (!count || count < 1) throw new Error('Count must be provided ...')
rejectsCount(count) == ~Truthy(count) \/ (count.t = "number" /\ count.n < 1)

\* handleBatchOperations(args); failing holds the rounds whose fetch rejects
handleBatchOperations(spec, base, tok, args, failing) ==
    IF Get(args, <<"o","p","e","r","a","t","i","o","n">>) # JsStr(<<"c","r","e","a","t","e","_","p","r","o","f","i","l","e","s">>)
    THEN BatchResult("FAILED", FALSE, <<>>)
    ELSE IF rejectsCount(Get(args, <<"c","o","u","n","t">>))
    THEN BatchResult("FAILED", FALSE, <<>>)
    ELSE LET items == [i \in 1..Get(args, <<"c","o","u","n","t">>).n |->
                        batchItem(spec, base, tok, Get(args, <<"t","e","m","p","l","a","t","e">>),
                                  Get(args, <<"n","a","m","e","P","r","e","f","i","x">>), i, i \notin failing)]
             results == SelectSeq(items, LAMBDA item : item.status = "created")
             errors == SelectSeq(items, LAMBDA item : item.status = "error")
         IN  BatchResult(IF results # <<>> /\ errors = <<>> THEN "SUCCESS"
                         ELSE IF results # <<>> /\ errors # <<>> THEN "PARTIAL_SUCCESS"
                         ELSE "FAILED",
                         TRUE, items)

\* the handler of a tools/call request that names batch_operations
handleBatchCall(spec, base, tok, args, failing) ==
    IF ~Truthy(args)
    THEN Result("raised", "No arguments provided", NoSelection, <<>>, NoRequest)
    ELSE handleBatchOperations(spec, base, tok, args, failing)

-----------------------------------------------------------------------------
(* Schema conversion (every version but the basic one, which lists a fixed  *)
(* input schema). The schemas are JavaScript values as JSON.parse yields    *)
(* them; an exception a call raises is a value with t = "thrown".           *)

\* a JavaScript array: its entries are keyed by the index
JsArr(items) ==
    [t |-> "array", n |-> 0, s |-> <<>>,
     e |-> [i \in 1..Len(items) |-> Entry(NumberToString(i - 1), items[i])]]

\* the elements of an array
Elements(array) == [i \in 1..Len(array.e) |-> array.e[i].val]

\* `k in o`
HasKey(o, k) == \E i \in 1..Len(o.e) : o.e[i].key = k

\* typeof v === 'object'
IsObject(v) == v.t \in {"object", "array"}

\* an exception: RangeError (maximum call stack size exceeded) or TypeError
Thrown(name) == [t |-> "thrown", n |-> 0, s |-> name, e |-> <<>>]

RangeError == Thrown(<<"R","a","n","g","e","E","r","r","o","r">>)

TypeError == Thrown(<<"T","y","p","e","E","r","r","o","r">>)

\* how many nested calls of the converter the call stack holds
MaxStack == 16

RECURSIVE split(_, _)
\* s.split(sep) for a separator of one character
split(s, sep) ==
    IF ~Has(s, sep) THEN <<s>>
    ELSE LET i == CHOOSE k \in 1..Len(s) :
                      s[k] = sep /\ \A j \in 1..(k - 1) : s[j] # sep
         IN  <<SubSeq(s, 1, i - 1)>> \o split(SubSeq(s, i + 1, Len(s)), sep)

\* this.apiSpec as the object resolveReference walks: the keys openapi,
\* servers and components (the pointers of the model never enter paths)
documentObject(spec) ==
    JsObj(SelectSeq(
        <<Entry(<<"o","p","e","n","a","p","i">>, JsStr(<<"3",".","0",".","0">>)),
          Entry(<<"s","e","r","v","e","r","s">>,
                JsArr([i \in 1..Len(spec.servers) |->
                    JsObj(<<Entry(<<"u","r","l">>, JsStr(spec.servers[i]))>>)])),
          Entry(<<"c","o","m","p","o","n","e","n","t","s">>, spec.components)>>,
        LAMBDA en : en.val # JsUndefined))

\* { type: 'object' }
GenericNode == JsObj(<<Entry(<<"t","y","p","e">>, JsStr(<<"o","b","j","e","c","t">>))>>)

RECURSIVE walk(_, _)
\* the loop of resolveReference over parts[1..]: undefined stands for the
\* early return, which answers the same node as a falsy target
walk(current, parts) ==
    IF parts = <<>> THEN current
    ELSE IF ~Truthy(current) \/ ~IsObject(current) THEN JsUndefined
    ELSE walk(Get(current, parts[1]), Tail(parts))

\* whether the version merges the branches of an allOf
mergesAllOf(v) == v # "validating"

\* whether the version gives every object-typed node a required list
alwaysRequired(v) == v \in {"flat", "registered"}

\* the required list of a plain node
requiredOf(v, schemaObj) ==
    IF alwaysRequired(v)
    THEN IF OrElse(Get(schemaObj, <<"t","y","p","e">>), JsStr(<<"o","b","j","e","c","t">>)) = JsStr(<<"o","b","j","e","c","t">>)
         THEN IF Truthy(Get(schemaObj, <<"r","e","q","u","i","r","e","d">>)) THEN Get(schemaObj, <<"r","e","q","u","i","r","e","d">>)
              ELSE JsArr(<<>>)
         ELSE JsUndefined
    ELSE IF Truthy(Get(schemaObj, <<"r","e","q","u","i","r","e","d">>)) THEN Get(schemaObj, <<"r","e","q","u","i","r","e","d">>)
    ELSE JsUndefined

\* mergedSchema.required.push(...resolvedSubSchema.required.filter(
\*     req => !mergedSchema.required.includes(req)))
pushRequired(merged, incoming) ==
    merged \o SelectSeq(incoming, LAMBDA req : ~Has(merged, req))

\* ['enum', 'format', 'minimum', 'maximum', 'pattern', 'items']
ScalarAttributes ==
    <<<<"e","n","u","m">>, <<"f","o","r","m","a","t">>, <<"m","i","n","i","m","u","m">>, <<"m","a","x","i","m","u","m">>, <<"p","a","t","t","e","r","n">>, <<"i","t","e","m","s">>>>

RECURSIVE mergeScalars(_, _, _)
\* if (resolvedSubSchema[prop] && !mergedSchema[prop])
\*   mergedSchema[prop] = resolvedSubSchema[prop]
mergeScalars(merged, resolved, props) ==
    IF props = <<>> THEN merged
    ELSE mergeScalars(
            IF Truthy(Get(resolved, props[1])) /\ ~Truthy(Get(JsObj(merged), props[1]))
            THEN SetKey(merged, props[1], Get(resolved, props[1]))
            ELSE merged,
            resolved, Tail(props))

RECURSIVE convertOpenAPISchemaToJsonSchema(_, _, _, _)
RECURSIVE resolveReference(_, _, _, _)
RECURSIVE convertProperties(_, _, _, _, _)
RECURSIVE mergeBranches(_, _, _, _, _)

\* a loop that copies the properties as they are
copiesProperties(v, spec, entries, target, depth) == JsObj(target \o entries)

\* Object.entries(properties).forEach(([key, prop]) =>
\*     target[key] = this.convertOpenAPISchemaToJsonSchema(prop))
\* onto the entries of target; depth is the room left on the call stack
convertProperties(v, spec, entries, target, depth) ==
    IF entries = <<>> THEN JsObj(target)
    ELSE LET converted == convertOpenAPISchemaToJsonSchema(v, spec, entries[1].val, depth)
         IN  IF converted.t = "thrown" THEN converted
             ELSE convertProperties(v, spec, Tail(entries),
                                    SetKey(target, entries[1].key, converted), depth)

\* one round of schemaObj.allOf.forEach on the entries of mergedSchema
mergeBranches(v, spec, branches, merged, depth) ==
    IF branches = <<>> THEN JsObj(merged)
    ELSE
      LET resolvedSubSchema == convertOpenAPISchemaToJsonSchema(v, spec, branches[1], depth)
          properties ==
            IF Truthy(Get(resolvedSubSchema, <<"p","r","o","p","e","r","t","i","e","s">>))
            THEN convertProperties(v, spec, Get(resolvedSubSchema, <<"p","r","o","p","e","r","t","i","e","s">>).e,
                    IF Truthy(Get(JsObj(merged), <<"p","r","o","p","e","r","t","i","e","s">>))
                    THEN Get(JsObj(merged), <<"p","r","o","p","e","r","t","i","e","s">>).e ELSE <<>>,
                    depth)
            ELSE JsUndefined
          withProperties ==
            IF properties = JsUndefined THEN merged
            ELSE SetKey(merged, <<"p","r","o","p","e","r","t","i","e","s">>, properties)
          withRequired ==
            IF Truthy(Get(resolvedSubSchema, <<"r","e","q","u","i","r","e","d">>))
            THEN SetKey(withProperties, <<"r","e","q","u","i","r","e","d">>,
                    JsArr(pushRequired(
                        IF Truthy(Get(JsObj(withProperties), <<"r","e","q","u","i","r","e","d">>))
                        THEN Elements(Get(JsObj(withProperties), <<"r","e","q","u","i","r","e","d">>)) ELSE <<>>,
                        Elements(Get(resolvedSubSchema, <<"r","e","q","u","i","r","e","d">>)))))
            ELSE withProperties
          withType ==
            IF ~Truthy(Get(JsObj(withRequired), <<"t","y","p","e">>))
               /\ Truthy(Get(resolvedSubSchema, <<"t","y","p","e">>))
            THEN SetKey(withRequired, <<"t","y","p","e">>, Get(resolvedSubSchema, <<"t","y","p","e">>))
            ELSE withRequired
      IN  IF resolvedSubSchema.t = "thrown" THEN resolvedSubSchema
          ELSE IF properties.t = "thrown" THEN properties
          ELSE mergeBranches(v, spec, Tail(branches),
                             mergeScalars(withType, resolvedSubSchema, ScalarAttributes),
                             depth)

\* the allOf branch of the converter
mergeAllOf(v, spec, schemaObj, depth) ==
    LET mergedSchema ==
            mergeBranches(v, spec, Elements(Get(schemaObj, <<"a","l","l","O","f">>)),
                SelectSeq(
                    <<Entry(<<"t","y","p","e">>, OrElse(Get(schemaObj, <<"t","y","p","e">>), JsStr(<<"o","b","j","e","c","t">>))),
                      Entry(<<"d","e","s","c","r","i","p","t","i","o","n">>,
                            IF Truthy(Get(schemaObj, <<"d","e","s","c","r","i","p","t","i","o","n">>))
                            THEN Get(schemaObj, <<"d","e","s","c","r","i","p","t","i","o","n">>) ELSE JsUndefined)>>,
                    LAMBDA en : en.val # JsUndefined),
                depth)
    IN  IF mergedSchema.t = "thrown" THEN mergedSchema
        ELSE IF alwaysRequired(v) /\ ~Truthy(Get(mergedSchema, <<"r","e","q","u","i","r","e","d">>))
        THEN JsObj(SetKey(mergedSchema.e, <<"r","e","q","u","i","r","e","d">>, JsArr(<<>>)))
        ELSE mergedSchema

\* the converter for a schema that is no reference and no merged allOf
convertPlain(v, spec, schemaObj, depth) ==
    LET properties ==
            IF Truthy(Get(schemaObj, <<"p","r","o","p","e","r","t","i","e","s">>))
            THEN convertProperties(v, spec, Get(schemaObj, <<"p","r","o","p","e","r","t","i","e","s">>).e, <<>>, depth)
            ELSE JsUndefined
        items ==
            IF Get(schemaObj, <<"t","y","p","e">>) = JsStr(<<"a","r","r","a","y">>) /\ Truthy(Get(schemaObj, <<"i","t","e","m","s">>))
            THEN convertOpenAPISchemaToJsonSchema(v, spec, Get(schemaObj, <<"i","t","e","m","s">>), depth)
            ELSE JsUndefined
        kept(key) == IF Truthy(Get(schemaObj, key)) THEN Get(schemaObj, key) ELSE JsUndefined
    IN  IF properties.t = "thrown" THEN properties
        ELSE IF items.t = "thrown" THEN items
        ELSE JsObj(SelectSeq(
                <<Entry(<<"t","y","p","e">>, OrElse(Get(schemaObj, <<"t","y","p","e">>), JsStr(<<"o","b","j","e","c","t">>))),
                  Entry(<<"p","r","o","p","e","r","t","i","e","s">>, properties),
                  Entry(<<"r","e","q","u","i","r","e","d">>, requiredOf(v, schemaObj)),
                  Entry(<<"d","e","s","c","r","i","p","t","i","o","n">>, kept(<<"d","e","s","c","r","i","p","t","i","o","n">>)),
                  Entry(<<"i","t","e","m","s">>, items),
                  Entry(<<"e","n","u","m">>, kept(<<"e","n","u","m">>)),
                  Entry(<<"f","o","r","m","a","t">>, kept(<<"f","o","r","m","a","t">>)),
                  Entry(<<"m","i","n","i","m","u","m">>, Get(schemaObj, <<"m","i","n","i","m","u","m">>)),
                  Entry(<<"m","a","x","i","m","u","m">>, Get(schemaObj, <<"m","a","x","i","m","u","m">>)),
                  Entry(<<"p","a","t","t","e","r","n">>, kept(<<"p","a","t","t","e","r","n">>))>>,
                LAMBDA en : en.val # JsUndefined))

\* convertOpenAPISchemaToJsonSchema(schema) with `depth` frames left on the
\* call stack; `'$ref' in schema` raises a TypeError for a primitive
convertOpenAPISchemaToJsonSchema(v, spec, schema, depth) ==
    IF depth = 0 THEN RangeError
    ELSE IF ~IsObject(schema) THEN TypeError
    ELSE IF HasKey(schema, <<"$","r","e","f">>)
    THEN resolveReference(v, spec, Get(schema, <<"$","r","e","f">>).s, depth - 1)
    ELSE IF mergesAllOf(v) /\ Truthy(Get(schema, <<"a","l","l","O","f">>))
    THEN mergeAllOf(v, spec, schema, depth - 1)
    ELSE convertPlain(v, spec, schema, depth - 1)

\* a resolver that converts whatever the walk reaches
resolveWithoutFallback(v, spec, ref, depth) ==
    IF depth = 0 THEN RangeError
    ELSE convertOpenAPISchemaToJsonSchema(v, spec,
            walk(documentObject(spec), Tail(split(ref, "/"))), depth - 1)

\* resolveReference(ref) with `depth` frames left on the call stack
resolveReference(v, spec, ref, depth) ==
    IF depth = 0 THEN RangeError
    ELSE IF spec.isNull THEN GenericNode
    ELSE IF split(ref, "/")[1] # <<"#">> THEN GenericNode
    ELSE LET current == walk(documentObject(spec), Tail(split(ref, "/")))
         IN  IF ~Truthy(current) THEN GenericNode
             ELSE convertOpenAPISchemaToJsonSchema(v, spec, current, depth - 1)

-----------------------------------------------------------------------------
(* Input schemas: the composite schema a tool is listed (or registered)     *)
(* with. The versions of part_001 build zod schemas: kind names the check,  *)
(* values the literals of z.enum, shape the keys of z.object, element the   *)
(* schema of z.array (a sequence of one schema, or none).                   *)

Zod(kind, values, shape, element) ==
    [t |-> "zod", kind |-> kind, optional |-> FALSE, description |-> <<>>,
     values |-> values, shape |-> shape, element |-> element]

\* zodSchema.optional()
optional(zodSchema) == [zodSchema EXCEPT !.optional = TRUE]

\* if (schema.description) zodSchema = zodSchema.describe(schema.description)
describe(zodSchema, description) ==
    IF Truthy(description) THEN [zodSchema EXCEPT !.description = description.s]
    ELSE zodSchema

\* convertToZodSchema(prop), on the schema of a path or query parameter
convertToZodSchema(prop) ==
    IF prop.enum # <<>> THEN Zod("enum", prop.enum, <<>>, <<>>)
    ELSE CASE prop.type \in {"string", "number", "integer", "boolean"} ->
                Zod(prop.type, <<>>, <<>>, <<>>)
           [] prop.type = "array" ->
                Zod("array", <<>>, <<>>, <<Zod("any", <<>>, <<>>, <<>>)>>)
           [] OTHER -> Zod("string", <<>>, <<>>, <<>>)

\* whether the version wraps the keys that are not required in .optional()
wrapsOptionalKeys(v) == v = "registered"

RECURSIVE convertJsonSchemaToZod(_, _)
RECURSIVE zodProperties(_, _, _)

\* for (const [key, prop] of Object.entries(schema.properties)): the shape
\* of the z.object, requiredFields being schema.required || []
zodProperties(v, entries, requiredFields) ==
    IF entries = <<>> THEN <<>>
    ELSE LET propSchema == convertJsonSchemaToZod(v, entries[1].val)
         IN  <<Entry(entries[1].key,
                     IF wrapsOptionalKeys(v) /\ ~Has(requiredFields, JsStr(entries[1].key))
                     THEN optional(propSchema) ELSE propSchema)>>
             \o zodProperties(v, Tail(entries), requiredFields)

convertJsonSchemaToZod(v, schema) ==
    IF ~Truthy(schema) \/ ~IsObject(schema) THEN Zod("any", <<>>, <<>>, <<>>)
    ELSE
      LET type == Get(schema, <<"t","y","p","e">>)
          properties == Get(schema, <<"p","r","o","p","e","r","t","i","e","s">>)
          required == Get(schema, <<"r","e","q","u","i","r","e","d">>)
          items == Get(schema, <<"i","t","e","m","s">>)
          zodSchema ==
            IF Truthy(Get(schema, <<"e","n","u","m">>)) /\ Get(schema, <<"e","n","u","m">>).t = "array"
            THEN Zod("enum", Elements(Get(schema, <<"e","n","u","m">>)), <<>>, <<>>)
            ELSE CASE type = JsStr(<<"o","b","j","e","c","t">>) ->
                        Zod("object", <<>>,
                            IF Truthy(properties)
                            THEN zodProperties(v, properties.e,
                                    IF Truthy(required) THEN Elements(required) ELSE <<>>)
                            ELSE <<>>,
                            <<>>)
                   [] type = JsStr(<<"a","r","r","a","y">>) ->
                        Zod("array", <<>>, <<>>,
                            <<IF Truthy(items) THEN convertJsonSchemaToZod(v, items)
                              ELSE Zod("any", <<>>, <<>>, <<>>)>>)
                   [] type = JsStr(<<"s","t","r","i","n","g">>) -> Zod("string", <<>>, <<>>, <<>>)
                   [] type = JsStr(<<"n","u","m","b","e","r">>) -> Zod("number", <<>>, <<>>, <<>>)
                   [] type = JsStr(<<"i","n","t","e","g","e","r">>) -> Zod("integer", <<>>, <<>>, <<>>)
                   [] type = JsStr(<<"b","o","o","l","e","a","n">>) -> Zod("boolean", <<>>, <<>>, <<>>)
                   [] OTHER -> Zod("any", <<>>, <<>>, <<>>)
      IN  describe(zodSchema, Get(schema, <<"d","e","s","c","r","i","p","t","i","o","n">>))

\* extractRequestBodySchema(operation): null (undefined here), or the
\* converted content['application/json'].schema, which is `schema`
extractRequestBodySchema(v, spec, operation, schema) ==
    IF hasRequestBodySchema(operation) /\ Truthy(schema)
    THEN convertOpenAPISchemaToJsonSchema(v, spec, schema, MaxStack)
    ELSE JsUndefined

\* a parameter schema of the model as the object the document holds
propertyObject(prop) ==
    JsObj(SelectSeq(
        <<Entry(<<"t","y","p","e">>,
                CASE prop.type = "string"  -> JsStr(<<"s","t","r","i","n","g">>)
                  [] prop.type = "number"  -> JsStr(<<"n","u","m","b","e","r">>)
                  [] prop.type = "integer" -> JsStr(<<"i","n","t","e","g","e","r">>)
                  [] prop.type = "boolean" -> JsStr(<<"b","o","o","l","e","a","n">>)
                  [] prop.type = "array"   -> JsStr(<<"a","r","r","a","y">>)
                  [] prop.type = "object"  -> JsStr(<<"o","b","j","e","c","t">>)
                  [] OTHER                 -> JsUndefined),
          Entry(<<"e","n","u","m">>, IF prop.enum = <<>> THEN JsUndefined ELSE JsArr(prop.enum))>>,
        LAMBDA en : en.val # JsUndefined))

\* schemaObj of the versions of part_001, the raw shape registerTool takes.
\* section is the z.object of the path (or query) parameters: registered
\* wraps the keys that are not required, the agent wraps the whole section
\* when no key is required
zodInputSchema(v, pathParams, queryParams, bodySchema) ==
    LET key(parameters, i) ==
            IF wrapsOptionalKeys(v)
               /\ ~Has(parameters.required, parameters.properties[i].key)
            THEN optional(convertToZodSchema(parameters.properties[i].val))
            ELSE convertToZodSchema(parameters.properties[i].val)
        object(parameters) ==
            Zod("object", <<>>,
                [i \in 1..Len(parameters.properties) |->
                    Entry(parameters.properties[i].key, key(parameters, i))],
                <<>>)
        section(parameters) ==
            IF v = "agent" /\ parameters.required = <<>>
            THEN optional(object(parameters)) ELSE object(parameters)
    IN  Zod("shape", <<>>,
            (IF pathParams.properties # <<>>
             THEN <<Entry(<<"p","a","t","h">>, section(pathParams))>> ELSE <<>>)
            \o (IF queryParams.properties # <<>>
                THEN <<Entry(<<"q","u","e","r","y">>, section(queryParams))>> ELSE <<>>)
            \o (IF Truthy(bodySchema)
                THEN <<Entry(<<"b","o","d","y">>, convertJsonSchemaToZod(v, bodySchema))>> ELSE <<>>),
            <<>>)

\* the composite schema of the validating version. section is
\* { type: 'object', properties, description } with `required` when the list
\* is not empty (the description each property carries is left out)
jsonInputSchema(pathParams, queryParams, bodySchema, requiredHeaders) ==
    LET strings(names) == JsArr([i \in 1..Len(names) |-> JsStr(names[i])])
        section(parameters, description) ==
            JsObj(SelectSeq(
                <<Entry(<<"t","y","p","e">>, JsStr(<<"o","b","j","e","c","t">>)),
                  Entry(<<"p","r","o","p","e","r","t","i","e","s">>,
                        JsObj([i \in 1..Len(parameters.properties) |->
                            Entry(parameters.properties[i].key,
                                  propertyObject(parameters.properties[i].val))])),
                  Entry(<<"d","e","s","c","r","i","p","t","i","o","n">>, JsStr(description)),
                  Entry(<<"r","e","q","u","i","r","e","d">>,
                        IF parameters.required # <<>> THEN strings(parameters.required)
                        ELSE JsUndefined)>>,
                LAMBDA en : en.val # JsUndefined))
        headers ==
            IF requiredHeaders # <<>>
            THEN JsObj(<<Entry(<<"t","y","p","e">>, JsStr(<<"o","b","j","e","c","t">>)),
                         Entry(<<"p","r","o","p","e","r","t","i","e","s">>, JsObj(<<>>)),
                         Entry(<<"r","e","q","u","i","r","e","d">>, strings(requiredHeaders)),
                         Entry(<<"d","e","s","c","r","i","p","t","i","o","n">>, JsStr(<<"A","d","d","i","t","i","o","n","a","l"," ","h","e","a","d","e","r","s"," ","f","o","r"," ","t","h","e"," ","r","e","q","u","e","s","t">>))>>)
            ELSE JsObj(<<Entry(<<"t","y","p","e">>, JsStr(<<"o","b","j","e","c","t">>)),
                         Entry(<<"d","e","s","c","r","i","p","t","i","o","n">>, JsStr(<<"A","d","d","i","t","i","o","n","a","l"," ","h","e","a","d","e","r","s"," ","f","o","r"," ","t","h","e"," ","r","e","q","u","e","s","t">>))>>)
        \* queryParams.required.length === Object.keys(queryParams.properties).length
        everyQueryRequired ==
            /\ queryParams.required # <<>>
            /\ Len(queryParams.required) = Len(queryParams.properties)
    IN  JsObj(<<
            Entry(<<"t","y","p","e">>, JsStr(<<"o","b","j","e","c","t">>)),
            Entry(<<"p","r","o","p","e","r","t","i","e","s">>, JsObj(
                (IF pathParams.properties # <<>>
                 THEN <<Entry(<<"p","a","t","h">>, section(pathParams, <<"P","a","t","h"," ","p","a","r","a","m","e","t","e","r","s"," ","f","o","r"," ","U","R","L"," ","s","u","b","s","t","i","t","u","t","i","o","n">>))>>
                 ELSE <<>>)
                \o (IF queryParams.properties # <<>>
                    THEN <<Entry(<<"q","u","e","r","y">>, section(queryParams, <<"Q","u","e","r","y"," ","p","a","r","a","m","e","t","e","r","s">>))>>
                    ELSE <<>>)
                \o (IF Truthy(bodySchema)
                    THEN <<Entry(<<"b","o","d","y">>, JsObj(SetKey(bodySchema.e, <<"d","e","s","c","r","i","p","t","i","o","n">>,
                                                    JsStr(<<"R","e","q","u","e","s","t"," ","b","o","d","y"," ","p","a","r","a","m","e","t","e","r","s">>))))>>
                    ELSE <<>>)
                \o <<Entry(<<"h","e","a","d","e","r","s">>, headers)>>)),
            Entry(<<"r","e","q","u","i","r","e","d">>, JsArr(
                (IF pathParams.properties # <<>> /\ pathParams.required # <<>>
                 THEN <<JsStr(<<"p","a","t","h">>)>> ELSE <<>>)
                \o (IF queryParams.properties # <<>> /\ everyQueryRequired
                    THEN <<JsStr(<<"q","u","e","r","y">>)>> ELSE <<>>)
                \o (IF Truthy(bodySchema) THEN <<JsStr(<<"b","o","d","y">>)>> ELSE <<>>)
                \o (IF requiredHeaders # <<>> THEN <<JsStr(<<"h","e","a","d","e","r","s">>)>> ELSE <<>>)))>>)

RECURSIVE collectProperties(_, _, _, _)
\* the three loops of the flat version, over the path parameters, the query
\* parameters and the properties of the body in turn:
\* properties[key] = convert(prop); required.push(key) for a required key
collectProperties(v, spec, entries, acc) ==
    IF entries = <<>> \/ acc.properties.t = "thrown" THEN acc
    ELSE collectProperties(v, spec, Tail(entries),
            LET converted == convertOpenAPISchemaToJsonSchema(v, spec, entries[1].val, MaxStack)
            IN  IF converted.t = "thrown"
                THEN [properties |-> converted, required |-> acc.required]
                ELSE [properties |-> JsObj(SetKey(acc.properties.e, entries[1].key, converted)),
                      required   |-> IF entries[1].required
                                     THEN Append(acc.required, entries[1].key)
                                     ELSE acc.required])

\* the composite schema of the flat version: every parameter and every
\* property of the body side by side, each entry with whether the required
\* list of its section includes the key
flatInputSchema(v, spec, pathParams, queryParams, bodySchema) ==
    LET section(parameters) ==
            [i \in 1..Len(parameters.properties) |->
                [key |-> parameters.properties[i].key,
                 val |-> propertyObject(parameters.properties[i].val),
                 required |-> Has(parameters.required, parameters.properties[i].key)]]
        properties == Get(bodySchema, <<"p","r","o","p","e","r","t","i","e","s">>)
        body ==
            IF Truthy(bodySchema) /\ Truthy(properties)
            THEN [i \in 1..Len(properties.e) |->
                    [key |-> properties.e[i].key,
                     val |-> properties.e[i].val,
                     required |-> /\ Truthy(Get(bodySchema, <<"r","e","q","u","i","r","e","d">>))
                                  /\ Has(Elements(Get(bodySchema, <<"r","e","q","u","i","r","e","d">>)),
                                         JsStr(properties.e[i].key))]]
            ELSE <<>>
        object(all) ==
            IF all.properties.t = "thrown" THEN all.properties
            ELSE JsObj(SelectSeq(
                    <<Entry(<<"t","y","p","e">>, JsStr(<<"o","b","j","e","c","t">>)),
                      Entry(<<"p","r","o","p","e","r","t","i","e","s">>, all.properties),
                      Entry(<<"r","e","q","u","i","r","e","d">>,
                            IF all.required # <<>>
                            THEN JsArr([i \in 1..Len(all.required) |-> JsStr(all.required[i])])
                            ELSE JsUndefined)>>,
                    LAMBDA en : en.val # JsUndefined))
    IN  object(collectProperties(v, spec,
                section(pathParams) \o section(queryParams) \o body,
                [properties |-> JsObj(<<>>), required |-> <<>>]))

\* buildInputSchema(operation, path); schema is what the operation holds at
\* requestBody.content['application/json'].schema
buildInputSchema(v, spec, operation, path, schema) ==
    LET pathParams == extractPathParameters(v, operation, path)
        queryParams == extractQueryParameters(v, operation)
        bodySchema == extractRequestBodySchema(v, spec, operation, schema)
    IN  IF bodySchema.t = "thrown" THEN bodySchema
        ELSE CASE v = "flat" ->
                    flatInputSchema(v, spec, pathParams, queryParams, bodySchema)
               [] v = "validating" ->
                    jsonInputSchema(pathParams, queryParams, bodySchema,
                                    extractRequiredHeaders(operation.parameters))
               [] OTHER ->
                    zodInputSchema(v, pathParams, queryParams, bodySchema)

-----------------------------------------------------------------------------
(* Documents and arguments the model draws from                            *)

\* how many path entries a generated document holds at most
MaxPaths == 2

\* how many entries a generated query object holds at most
MaxQuery == 2

ServerUrl == <<"h","t","t","p","s",":","/","/","a","p","i",".","t","e","s","t">>

BrowserIdItem ==
    PathItem(<<"/","b","r","o","w","s","e","r","/","{","i","d","}">>, <<
        Method(<<"g","e","t">>, Operation(<<>>, <<>>, <<>>, NoRequestBody)),
        Method(<<"d","e","l","e","t","e">>, Operation(<<"d","e","l","e","t","e","B","r","o","w","s","e","r">>, <<>>,
            <<Parameter(<<"i","d">>, "path", TRUE, Schema("string", <<>>))>>,
            NoRequestBody))>>)

ProfileIdItem ==
    PathItem(<<"/","p","r","o","f","i","l","e","/","{","i","d","}">>, <<
        Method(<<"g","e","t">>, Operation(<<>>, <<"G","e","t"," ","p","r","o","f","i","l","e">>,
            <<Parameter(<<"i","d">>, "path", FALSE, NoSchema)>>, NoRequestBody)),
        Method(<<"p","u","t">>, Operation(<<"p","u","t","P","r","o","f","i","l","e">>, <<>>,
            <<RefParameter, Parameter(<<"i","d">>, "path", TRUE, Schema("integer", <<>>))>>,
            JsonRequestBody))>>)

ItemsItem ==
    PathItem(<<"/","i","t","e","m","s">>, <<
        Method(<<"p","a","r","a","m","e","t","e","r","s">>, NullOperation),
        Method(<<"p","o","s","t">>, Operation(<<"p","o","s","t","_","i","t","e","m","s">>, <<>>,
            <<Parameter(<<"X","-","K","e","y">>, "header", TRUE, NoSchema)>>, JsonRequestBody)),
        Method(<<"g","e","t">>, Operation(<<"g","e","t","_","i","t","e","m","s">>, <<>>,
            <<Parameter(<<"p","a","g","e">>, "query", FALSE, Schema("number", <<>>)),
              Parameter(<<"q">>, "query", TRUE,
                        Schema("string", <<JsStr(<<"a">>), JsStr(<<"a"," ","b">>)>>))>>,
            NoRequestBody))>>)

DashItem ==
    PathItem(<<"/","a","-","b">>, <<
        Method(<<"g","e","t">>, Operation(<<>>, <<>>, <<>>, NoRequestBody)),
        Method(<<"h","e","a","d">>, NullOperation)>>)

UnderscoreItem ==
    PathItem(<<"/","a","_","b">>, <<
        Method(<<"g","e","t">>, Operation(<<>>, <<>>, <<>>, NoRequestBody))>>)

BrowserItem ==
    PathItem(<<"/","b","r","o","w","s","e","r">>, <<
        Method(<<"p","o","s","t">>, Operation(<<"c","r","e","a","t","e","P","r","o","f","i","l","e">>, <<"C","r","e","a","t","e"," ","p","r","o","f","i","l","e">>, <<>>,
            JsonRequestBody)),
        Method(<<"g","e","t">>, Operation(<<"l","i","s","t","P","r","o","f","i","l","e","s">>, <<"G","e","t"," "," ","P","r","o","f","i","l","e","!">>, <<>>,
            NoRequestBody))>>)

PathItemPool ==
    {BrowserIdItem, ProfileIdItem, ItemsItem, DashItem, UnderscoreItem, BrowserItem}

\* sequences of at most n path entries with pairwise distinct paths
PathSequences(n) ==
    UNION {{ps \in [1..k -> PathItemPool] :
                \A i, j \in 1..k : i # j => ps[i].path # ps[j].path} : k \in 1..n}

\* the documents a fetch may deliver: with or without a server entry
Documents ==
    {Document(servers, ps) : servers \in {<<>>, <<ServerUrl>>},
                             ps \in PathSequences(MaxPaths)}
    \cup {PathlessDocument(<<ServerUrl>>)}

\* one document whose operations take path, query, body and header arguments
ReferenceDocument ==
    Document(<<ServerUrl>>, <<ItemsItem, BrowserIdItem, ProfileIdItem>>)

\* process.env.API_TOKEN || ''
Tokens == {<<>>, <<"t","o","k">>}

\* the arguments of an invocation in the nested form {path, query, body, headers}
NestedArguments(path, query, body, headers) ==
    JsObj(SelectSeq(<<Entry(<<"p","a","t","h">>, path), Entry(<<"q","u","e","r","y">>, query),
                      Entry(<<"b","o","d","y">>, body), Entry(<<"h","e","a","d","e","r","s">>, headers)>>,
                    LAMBDA en : en.val # JsUndefined))

\* a complete invocation of any tool of the pool, nested and flat
FullArguments ==
    NestedArguments(JsObj(<<Entry(<<"i","d">>, JsStr(<<"x">>))>>),
                    JsObj(<<Entry(<<"q">>, JsStr(<<"a">>))>>),
                    JsObj(<<Entry(<<"n","a","m","e">>, JsStr(<<"x">>))>>),
                    JsObj(<<Entry(<<"X","-","K","e","y">>, JsStr(<<"k">>))>>))

FlatArguments ==
    JsObj(<<Entry(<<"i","d">>, JsStr(<<"x">>)), Entry(<<"q">>, JsStr(<<"a">>)),
            Entry(<<"n","a","m","e">>, JsStr(<<"x">>))>>)

\* the arguments the lifecycle specification invokes tools with: none, or
\* the complete ones in the form the version decodes
FewArguments(v) == {JsUndefined, IF v = "flat" THEN FlatArguments ELSE FullArguments}

\* the names the catalog of version v lists for spec, the names its
\* dispatcher knows, an excluded name and a name no operation has
CandidateNames(v, spec) ==
    LET ops == Operations(spec.paths)
    IN  {toolName(v, ops[i].method, ops[i].path, ops[i].op) : i \in 1..Len(ops)}
        \cup {generatedToolName(v, ops[i].method, ops[i].path, ops[i].op) :
                i \in 1..Len(ops)}
        \cup {<<"c","r","e","a","t","e","_","p","r","o","f","i","l","e">>, <<"n","o","_","s","u","c","h","_","t","o","o","l">>}

\* the names concurrent invocations are made with: the dispatcher's names of
\* the first two operations of the document, and a name no operation has
ConcurrentNames(v, spec) ==
    LET ops == Operations(spec.paths)
    IN  {generatedToolName(v, ops[i].method, ops[i].path, ops[i].op) :
            i \in 1..(IF Len(ops) < 2 THEN Len(ops) ELSE 2)}
        \cup {<<"n","o","_","s","u","c","h","_","t","o","o","l">>}

PathArguments ==
    {JsUndefined, JsObj(<<Entry(<<"i","d">>, JsStr(<<"a","/","b">>))>>),
     JsObj(<<Entry(<<"i","d">>, JsStr(<<>>))>>)}

QueryValues == {JsNum(0), JsNum(1), JsStr(<<"a"," ","b">>)}

QueryKeys == {<<"p","a","g","e">>, <<"q">>}

QueryArguments ==
    {JsUndefined}
    \cup {JsObj(es) : es \in UNION {
            {q \in [1..k -> {Entry(key, val) : key \in QueryKeys, val \in QueryValues}] :
                \A i, j \in 1..k : i # j => q[i].key # q[j].key} : k \in 0..MaxQuery}}

BodyArguments == {JsUndefined, JsObj(<<Entry(<<"n","a","m","e">>, JsStr(<<"x">>))>>), JsNum(0)}

HeaderArguments ==
    {JsUndefined, JsObj(<<Entry(<<"X","-","K","e","y">>, JsStr(<<"k">>))>>),
     JsObj(<<Entry(<<"X","-","K","E","Y">>, JsStr(<<"k">>))>>),
     JsObj(<<Entry(<<"x","-","k","e","y">>, JsStr(<<"k">>)), Entry(<<"A","u","t","h","o","r","i","z","a","t","i","o","n">>, JsStr(<<"m","i","n","e">>))>>)}

\* the flat form of the same arguments: path and query entries side by side
\* with the entries of an object body and the headers entry
FlattenArguments(path, query, body, headers) ==
    JsObj(path.e \o query.e \o body.e
          \o (IF headers = JsUndefined THEN <<>> ELSE <<Entry(<<"h","e","a","d","e","r","s">>, headers)>>))

\* how many branches a generated allOf holds at most
MaxBranches == 2

SchemaRef(name) == JsObj(<<Entry(<<"$","r","e","f">>, JsStr(<<"#","/","c","o","m","p","o","n","e","n","t","s","/","s","c","h","e","m","a","s","/">> \o name))>>)

StringSchema == JsObj(<<Entry(<<"t","y","p","e">>, JsStr(<<"s","t","r","i","n","g">>))>>)

BaseSchema ==
    JsObj(<<Entry(<<"t","y","p","e">>, JsStr(<<"o","b","j","e","c","t">>)),
            Entry(<<"p","r","o","p","e","r","t","i","e","s">>, JsObj(<<Entry(<<"i","d">>, StringSchema)>>)),
            Entry(<<"r","e","q","u","i","r","e","d">>, JsArr(<<JsStr(<<"i","d">>)>>))>>)

NamedSchema ==
    JsObj(<<Entry(<<"d","e","s","c","r","i","p","t","i","o","n">>, JsStr(<<"n","a","m","e","d">>)),
            Entry(<<"p","r","o","p","e","r","t","i","e","s">>, JsObj(<<
                Entry(<<"n","a","m","e">>, JsObj(<<Entry(<<"t","y","p","e">>, JsStr(<<"s","t","r","i","n","g">>)),
                                        Entry(<<"p","a","t","t","e","r","n">>, JsStr(<<"p">>))>>)),
                Entry(<<"o","w","n","e","r">>, SchemaRef(<<"B","a","s","e">>))>>))>>)

DanglingSchema ==
    JsObj(<<Entry(<<"t","y","p","e">>, JsStr(<<"o","b","j","e","c","t">>)),
            Entry(<<"p","r","o","p","e","r","t","i","e","s">>, JsObj(<<Entry(<<"m">>, SchemaRef(<<"N","o","p","e">>))>>))>>)

ListSchema ==
    JsObj(<<Entry(<<"t","y","p","e">>, JsStr(<<"a","r","r","a","y">>)), Entry(<<"i","t","e","m","s">>, SchemaRef(<<"N","a","m","e","d">>))>>)

\* a schema that refers to itself through a property, as a linked list does
NodeSchema ==
    JsObj(<<Entry(<<"t","y","p","e">>, JsStr(<<"o","b","j","e","c","t">>)),
            Entry(<<"p","r","o","p","e","r","t","i","e","s">>, JsObj(<<Entry(<<"n","e","x","t">>, SchemaRef(<<"N","o","d","e">>))>>))>>)

\* components without a reference cycle
AcyclicComponents ==
    JsObj(<<Entry(<<"s","c","h","e","m","a","s">>, JsObj(<<
        Entry(<<"B","a","s","e">>, BaseSchema), Entry(<<"N","a","m","e","d">>, NamedSchema),
        Entry(<<"A","l","i","a","s">>, SchemaRef(<<"B","a","s","e">>)), Entry(<<"D","a","n","g","l","i","n","g">>, DanglingSchema),
        Entry(<<"L","i","s","t">>, ListSchema)>>))>>)

\* the same with a schema that refers to itself and two that refer to each other
CyclicComponents ==
    JsObj(<<Entry(<<"s","c","h","e","m","a","s">>, JsObj(<<
        Entry(<<"B","a","s","e">>, BaseSchema), Entry(<<"N","a","m","e","d">>, NamedSchema),
        Entry(<<"N","o","d","e">>, NodeSchema), Entry(<<"S","e","l","f">>, SchemaRef(<<"S","e","l","f">>)),
        Entry(<<"P","i","n","g">>, SchemaRef(<<"P","o","n","g">>)), Entry(<<"P","o","n","g">>, SchemaRef(<<"P","i","n","g">>))>>))>>)

\* the documents the conversions run on
SchemaDocuments ==
    {ReferenceDocument, WithComponents(ReferenceDocument, AcyclicComponents),
     WithComponents(ReferenceDocument, CyclicComponents)}

\* $ref values: to a schema, to a nested schema, to an element of an array, to
\* the document, to a string; with a missing segment; not starting at '#'
Pointers ==
    {<<"#","/","c","o","m","p","o","n","e","n","t","s","/","s","c","h","e","m","a","s","/","B","a","s","e">>, <<"#","/","c","o","m","p","o","n","e","n","t","s","/","s","c","h","e","m","a","s","/","A","l","i","a","s">>,
     <<"#","/","c","o","m","p","o","n","e","n","t","s","/","s","c","h","e","m","a","s","/","B","a","s","e","/","p","r","o","p","e","r","t","i","e","s","/","i","d">>, <<"#","/","s","e","r","v","e","r","s","/","0">>, <<"#">>,
     <<"#","/","o","p","e","n","a","p","i">>,
     <<"#","/","c","o","m","p","o","n","e","n","t","s","/","s","c","h","e","m","a","s","/","N","o","p","e">>, <<"#","/","d","e","f","i","n","i","t","i","o","n","s","/","B","a","s","e">>, <<"#","/","o","p","e","n","a","p","i","/","x">>,
     <<"#","/","c","o","m","p","o","n","e","n","t","s","/","s","c","h","e","m","a","s","/","B","a","s","e","/">>, <<"#","/">>,
     <<"c","o","m","p","o","n","e","n","t","s","/","s","c","h","e","m","a","s","/","B","a","s","e">>, <<"o","t","h","e","r",".","j","s","o","n","#","/","c","o","m","p","o","n","e","n","t","s","/","s","c","h","e","m","a","s","/","B","a","s","e">>, <<>>,
     <<"#","/","c","o","m","p","o","n","e","n","t","s","/","s","c","h","e","m","a","s","/","N","o","d","e">>, <<"#","/","c","o","m","p","o","n","e","n","t","s","/","s","c","h","e","m","a","s","/","S","e","l","f">>,
     <<"#","/","c","o","m","p","o","n","e","n","t","s","/","s","c","h","e","m","a","s","/","P","i","n","g">>}

\* the branches of the generated allOf schemas
Branches ==
    {SchemaRef(<<"B","a","s","e">>), SchemaRef(<<"N","o","p","e">>),
     JsObj(<<Entry(<<"t","y","p","e">>, JsStr(<<"a","r","r","a","y">>)),
             Entry(<<"i","t","e","m","s">>, SchemaRef(<<"B","a","s","e">>))>>),
     JsObj(<<Entry(<<"t","y","p","e">>, JsStr(<<"o","b","j","e","c","t">>)),
             Entry(<<"p","r","o","p","e","r","t","i","e","s">>, JsObj(<<Entry(<<"n","a","m","e">>, StringSchema)>>)),
             Entry(<<"r","e","q","u","i","r","e","d">>, JsArr(<<JsStr(<<"n","a","m","e">>), JsStr(<<"i","d">>)>>))>>),
     JsObj(<<Entry(<<"t","y","p","e">>, JsStr(<<"o","b","j","e","c","t">>)),
             Entry(<<"p","r","o","p","e","r","t","i","e","s">>, JsObj(<<Entry(<<"t","a","g">>, StringSchema)>>)),
             Entry(<<"r","e","q","u","i","r","e","d">>, JsArr(<<JsStr(<<"t","a","g">>), JsStr(<<"t","a","g">>)>>))>>),
     JsObj(<<Entry(<<"t","y","p","e">>, JsStr(<<"n","u","m","b","e","r">>)), Entry(<<"m","i","n","i","m","u","m">>, JsNum(0)),
             Entry(<<"m","a","x","i","m","u","m">>, JsNum(9))>>),
     JsObj(<<Entry(<<"t","y","p","e">>, JsStr(<<"n","u","m","b","e","r">>)), Entry(<<"m","i","n","i","m","u","m">>, JsNum(5)),
             Entry(<<"f","o","r","m","a","t">>, JsStr(<<"i","n","t","3","2">>))>>),
     JsObj(<<Entry(<<"t","y","p","e">>, JsStr(<<"s","t","r","i","n","g">>)), Entry(<<"d","e","s","c","r","i","p","t","i","o","n">>, JsStr(<<"b","r","a","n","c","h">>)),
             Entry(<<"p","a","t","t","e","r","n">>, JsStr(<<"p">>)),
             Entry(<<"e","n","u","m">>, JsArr(<<JsStr(<<"a">>)>>))>>)}

\* what the combination declares itself next to allOf
OwnAttributes ==
    {<<>>, <<Entry(<<"t","y","p","e">>, JsStr(<<"s","t","r","i","n","g">>)), Entry(<<"d","e","s","c","r","i","p","t","i","o","n">>, JsStr(<<"o","w","n">>))>>}

AllOfSchemas ==
    {JsObj(own \o <<Entry(<<"a","l","l","O","f">>, JsArr(branches))>>) :
        own \in OwnAttributes,
        branches \in UNION {[1..k -> Branches] : k \in 1..MaxBranches}}

\* the schemas of parameters and request bodies handed to the converter
SchemaInputs ==
    {JsObj(<<Entry(<<"$","r","e","f">>, JsStr(ref))>>) : ref \in Pointers}
    \cup {StringSchema, BaseSchema, NamedSchema, DanglingSchema, ListSchema, NodeSchema,
          JsObj(<<>>)}
    \cup AllOfSchemas

\* an object whose property is an object with a required and a free key
NestedSchema ==
    JsObj(<<Entry(<<"t","y","p","e">>, JsStr(<<"o","b","j","e","c","t">>)),
            Entry(<<"p","r","o","p","e","r","t","i","e","s">>, JsObj(<<
                Entry(<<"o","u","t","e","r">>, JsObj(<<
                    Entry(<<"t","y","p","e">>, JsStr(<<"o","b","j","e","c","t">>)),
                    Entry(<<"p","r","o","p","e","r","t","i","e","s">>, JsObj(<<Entry(<<"i","n","n","e","r">>, StringSchema),
                                                  Entry(<<"f","r","e","e">>, StringSchema)>>)),
                    Entry(<<"r","e","q","u","i","r","e","d">>, JsArr(<<JsStr(<<"i","n","n","e","r">>)>>))>>)),
                Entry(<<"t","a","g","s">>, JsObj(<<Entry(<<"t","y","p","e">>, JsStr(<<"a","r","r","a","y">>)),
                                        Entry(<<"i","t","e","m","s">>, BaseSchema)>>))>>)),
            Entry(<<"r","e","q","u","i","r","e","d">>, JsArr(<<JsStr(<<"o","u","t","e","r">>)>>))>>)

\* the schemas a JSON request body of the document declares
BodySchemas ==
    {BaseSchema, NamedSchema, NestedSchema, ListSchema, StringSchema,
     SchemaRef(<<"N","a","m","e","d">>), SchemaRef(<<"N","o","d","e">>),
     JsObj(<<Entry(<<"a","l","l","O","f">>, JsArr(<<SchemaRef(<<"B","a","s","e">>), NestedSchema>>))>>)}

\* the operation the batch dispatches to, free of required parameters, and
\* the same operation behind a required header
TemplatesItem ==
    PathItem(<<"/","b","r","o","w","s","e","r","/","t","e","m","p","l","a","t","e","s">>, <<
        Method(<<"p","o","s","t">>, Operation(<<"c","r","e","a","t","e","W","i","t","h","T","e","m","p","l","a","t","e","s">>, <<"C","r","e","a","t","e"," ","p","r","o","f","i","l","e"," ","w","i","t","h"," ","t","e","m","p","l","a","t","e","s">>,
            <<>>, JsonRequestBody))>>)

KeyedTemplatesItem ==
    PathItem(<<"/","b","r","o","w","s","e","r","/","t","e","m","p","l","a","t","e","s">>, <<
        Method(<<"p","o","s","t">>, Operation(<<"c","r","e","a","t","e","W","i","t","h","T","e","m","p","l","a","t","e","s">>, <<"C","r","e","a","t","e"," ","p","r","o","f","i","l","e"," ","w","i","t","h"," ","t","e","m","p","l","a","t","e","s">>,
            <<Parameter(<<"X","-","K","e","y">>, "header", TRUE, NoSchema)>>, JsonRequestBody))>>)

\* documents with and without the operation of the batch
BatchDocuments ==
    {Document(<<ServerUrl>>, <<TemplatesItem, BrowserItem>>),
     Document(<<ServerUrl>>, <<KeyedTemplatesItem, ProfileIdItem>>),
     Document(<<ServerUrl>>, <<BrowserItem, ItemsItem>>)}

\* the counts a batch is asked for: none, below, at and above the bounds of
\* the input schema
BatchCounts ==
    {JsUndefined, JsNum(CountMinimum - 1), JsNum(CountMinimum), JsNum(CountMinimum + 1),
     JsNum(CountMaximum), JsNum(CountMaximum + 1)}

BatchArguments ==
    {JsUndefined}
    \cup {JsObj(SelectSeq(<<Entry(<<"o","p","e","r","a","t","i","o","n">>, JsStr(operation)),
                            Entry(<<"c","o","u","n","t">>, count),
                            Entry(<<"t","e","m","p","l","a","t","e">>, template)>>,
                          LAMBDA en : en.val # JsUndefined)) :
            operation \in {<<"c","r","e","a","t","e","_","p","r","o","f","i","l","e","s">>, <<"d","e","l","e","t","e","_","p","r","o","f","i","l","e","s">>},
            count \in BatchCounts,
            template \in {JsUndefined, JsObj(<<Entry(<<"o","s">>, JsStr(<<"w","i","n">>))>>)}}

\* the rounds of a batch whose fetch rejects
FetchFailures == SUBSET {1, CountMinimum + 1}

-----------------------------------------------------------------------------
(* The state machine                                                       *)

NoCall == [received |-> FALSE, name |-> <<>>, args |-> JsUndefined]

Call(name, args) == [received |-> TRUE, name |-> name, args |-> args]

NoOutcome == Result("none", "", NoSelection, <<>>, NoRequest)

\* how many invocations the server handles at a time at most
MaxInFlight == 2

Slots == 1..MaxInFlight

\* a slot without an invocation; a slot with one is "awaiting" the answer to
\* the request it issued, or "done" with its result; order counts the
\* invocations in flight when this one began
Idle ==
    [stage |-> "idle", name |-> <<>>, args |-> JsUndefined, order |-> 0,
     selection |-> NoSelection, request |-> NoRequest, fetchOk |-> TRUE,
     result |-> NoOutcome]

\* a conversion: by "convert" or "resolve", of a schema or a pointer
NoConversion == [by |-> "none", input |-> JsUndefined, node |-> JsUndefined]

Conversion(by, input, node) == [by |-> by, input |-> input, node |-> node]

\* the state after construction; the agent's token is the Authorization
\* header of the request it serves, which the worker requires
Init ==
    /\ variant \in Variants
    /\ phase = "constructed"
    /\ apiSpec = NullSpec
    /\ baseUrl = <<>>
    /\ token \in (IF variant = "agent" THEN Tokens \ {<<>>} ELSE Tokens)
    /\ tools = <<>>
    /\ call = NoCall
    /\ outcome = NoOutcome
    /\ conversion = NoConversion
    /\ inflight = [i \in Slots |-> Idle]

\* whether setupHandlers/init registers the tools itself, once, after the load
registersTools(v) == v \in {"registered", "agent"}

\* a server that fetches the document again while it serves requests
loadsAgain == phase \in {"constructed", "loaded", "connected"}

\* loadApiSpec has one call site, in the startup
canLoad == phase = "constructed"

\* loadApiSpec, reached from run() (or setupHandlers, or init): the fetch
\* fails or answers a non-success status, or the body cannot be parsed, or a
\* document is parsed and stored before getBaseUrl looks for its server
LoadFrom(documents) ==
    /\ canLoad
    /\ \/ /\ phase' = "aborted"
          /\ UNCHANGED <<apiSpec, baseUrl, tools>>
       \/ \E doc \in documents :
            /\ apiSpec' = doc
            /\ IF doc.servers # <<>>
               THEN /\ baseUrl' = doc.servers[1]
                    /\ phase' = "loaded"
                    /\ tools' = IF registersTools(variant) THEN Tools(variant, doc)
                                ELSE tools
               ELSE /\ phase' = "aborted"
                    /\ UNCHANGED <<baseUrl, tools>>
    /\ UNCHANGED <<variant, token, call, outcome, conversion, inflight>>

LoadApiSpec == LoadFrom(Documents)

\* a run() that connects the transport without awaiting the load
connectsUnloaded == phase \in {"constructed", "loaded"}

\* run(): the transport is connected after the awaited load
canConnect == phase = "loaded"

Connect ==
    /\ canConnect
    /\ phase' = "connected"
    /\ UNCHANGED <<variant, token, apiSpec, baseUrl, tools, call, outcome, conversion, inflight>>

\* the ListTools handler
ListTools ==
    /\ phase = "connected"
    /\ ~registersTools(variant)
    /\ tools' = Tools(variant, apiSpec)
    /\ UNCHANGED <<variant, token, phase, apiSpec, baseUrl, call, outcome, conversion, inflight>>

\* the names a client may invoke with Invoke: any name where the server
\* looks the name up itself, a registered name where the SDK does;
\* batch_operations is invoked by CallBatch
invocable(name) ==
    IF registersTools(variant) THEN name \in ToolNames(tools)
    ELSE ~(variant = "validating" /\ name = BatchOperationsName)

\* the transport hands a request to the handler once the server is connected
\* and the previous request has been answered
acceptsCall == phase = "connected" /\ ~call.received

\* one tools/call request, handled to its end
Invoke(name, args, fetchOk) ==
    /\ acceptsCall
    /\ invocable(name)
    /\ registersTools(variant) => Truthy(args)
    /\ call' = Call(name, args)
    /\ outcome' = handleCall(variant, apiSpec, baseUrl, token, name, args, fetchOk)
    /\ UNCHANGED <<variant, token, phase, apiSpec, baseUrl, tools, conversion, inflight>>

CallTool ==
    /\ acceptsCall
    /\ \E name \in CandidateNames(variant, apiSpec), args \in FewArguments(variant),
          fetchOk \in BOOLEAN :
            Invoke(name, args, fetchOk)

\* the result (or the error) of the invocation goes back to the client
Respond ==
    /\ call.received
    /\ call' = NoCall
    /\ outcome' = NoOutcome
    /\ UNCHANGED <<variant, token, phase, apiSpec, baseUrl, tools, conversion, inflight>>

Next == LoadApiSpec \/ Connect \/ ListTools \/ CallTool \/ Respond

Spec == Init /\ [][Next]_vars

\* the same server started on the reference document and invoked with
\* every combination of path, query, body and header arguments
LoadReference == LoadFrom({ReferenceDocument})

CallToolWide ==
    /\ acceptsCall
    /\ \E name \in CandidateNames(variant, apiSpec),
          path \in PathArguments, query \in QueryArguments,
          body \in BodyArguments, headers \in HeaderArguments :
            Invoke(name,
                   IF variant = "flat" THEN FlattenArguments(path, query, body, headers)
                   ELSE NestedArguments(path, query, body, headers),
                   TRUE)

NextCall == LoadReference \/ Connect \/ CallToolWide \/ Respond

SpecCall == Init /\ [][NextCall]_vars

\* the specification of the schema conversions: a document with component
\* schemas is loaded, then parameter and request body schemas are converted
\* and pointers resolved, as the construction of the input schemas does
LoadSchemas == LoadFrom(SchemaDocuments)

\* whether the version converts schemas at all
convertsSchemas(v) == v # "basic"

\* a conversion changes nothing of the server, so a behaviour records one
canConvert ==
    /\ phase \in {"loaded", "connected"}
    /\ convertsSchemas(variant)
    /\ conversion.by = "none"

\* extractRequestBodySchema, and the loops over the parameter schemas:
\* this.convertOpenAPISchemaToJsonSchema(schema)
ConvertSchema ==
    /\ canConvert
    /\ \E schema \in SchemaInputs :
        conversion' = Conversion("convert", schema,
            convertOpenAPISchemaToJsonSchema(variant, apiSpec, schema, MaxStack))
    /\ UNCHANGED <<variant, token, phase, apiSpec, baseUrl, tools, call, outcome, inflight>>

\* getSchemaType, and the converter on a reference: this.resolveReference(ref)
ResolveReference ==
    /\ canConvert
    /\ \E ref \in Pointers :
        conversion' = Conversion("resolve", JsStr(ref),
            resolveReference(variant, apiSpec, ref, MaxStack))
    /\ UNCHANGED <<variant, token, phase, apiSpec, baseUrl, tools, call, outcome, inflight>>

NextSchema == LoadSchemas \/ Connect \/ ConvertSchema \/ ResolveReference

SpecSchema == Init /\ [][NextSchema]_vars

\* the specification of the input schemas: the catalog builder calls
\* buildInputSchema for an operation of the loaded document
BuildInputSchema ==
    /\ canConvert
    /\ ~apiSpec.isNull /\ apiSpec.hasPaths
    /\ \E i \in 1..Len(Operations(apiSpec.paths)), schema \in BodySchemas :
        LET o == Operations(apiSpec.paths)[i]
        IN  conversion' = Conversion("buildInputSchema", [operation |-> o, schema |-> schema],
                buildInputSchema(variant, apiSpec, o.op, o.path, schema))
    /\ UNCHANGED <<variant, token, phase, apiSpec, baseUrl, tools, call, outcome, inflight>>

NextInput == LoadSchemas \/ Connect \/ BuildInputSchema

SpecInput == Init /\ [][NextInput]_vars

\* the same server with batch_operations among its invocations
LoadBatch == LoadFrom(BatchDocuments)

\* one tools/call request that names batch_operations, handled to its end
CallBatch ==
    /\ acceptsCall
    /\ variant = "validating"
    /\ \E args \in BatchArguments, failing \in FetchFailures :
        /\ call' = Call(BatchOperationsName, args)
        /\ outcome' = handleBatchCall(apiSpec, baseUrl, token, args, failing)
    /\ UNCHANGED <<variant, token, phase, apiSpec, baseUrl, tools, conversion, inflight>>

NextBatch == LoadBatch \/ Connect \/ ListTools \/ CallTool \/ CallBatch \/ Respond

SpecBatch == Init /\ [][NextBatch]_vars

\* the specification of concurrent invocations: every handler runs without
\* interruption up to its `await fetch(...)`, the answers arrive in any
\* order; a new invocation takes the first free slot
Suspended(name, args, order, r) ==
    [stage |-> "awaiting", name |-> name, args |-> args, order |-> order,
     selection |-> r.selection, request |-> r.request, fetchOk |-> TRUE,
     result |-> NoOutcome]

Finished(name, args, order, r) ==
    [stage |-> "done", name |-> name, args |-> args, order |-> order,
     selection |-> r.selection, request |-> r.request, fetchOk |-> TRUE,
     result |-> r]

\* a dispatcher that keeps the request in a field of the server, which the
\* invocation that began last has overwritten
lastRequest(slots, i) ==
    slots[CHOOSE j \in Slots :
            /\ slots[j].stage # "idle"
            /\ \A k \in Slots : slots[k].stage # "idle" => slots[k].order <= slots[j].order].request

\* the url and the method the continuation reports: its own local variables
reportedRequest(slots, i) == slots[i].request

\* the handler from its entry to the first await: it returns (or raises)
\* at once, or it has built its request and waits for fetch
Begin(i, name, args) ==
    /\ phase = "connected"
    /\ inflight[i].stage = "idle"
    /\ invocable(name)
    /\ registersTools(variant) => Truthy(args)
    /\ LET r == handleCall(variant, apiSpec, baseUrl, token, name, args, TRUE)
           order == 1 + Cardinality({j \in Slots : inflight[j].stage # "idle"})
       IN  inflight' = [inflight EXCEPT ![i] =
                IF r.request.sent THEN Suspended(name, args, order, r)
                ELSE Finished(name, args, order, r)]
    /\ UNCHANGED <<variant, token, phase, apiSpec, baseUrl, tools, call, outcome, conversion>>

BeginCall ==
    /\ phase = "connected"
    /\ \E i \in Slots :
        /\ inflight[i].stage = "idle"
        /\ \A j \in 1..(i - 1) : inflight[j].stage # "idle"
        /\ \E name \in ConcurrentNames(variant, apiSpec) :
            Begin(i, name, IF variant = "flat" THEN FlatArguments ELSE FullArguments)

\* fetch settles and the handler runs on to its end: the report of the
\* response, or 'API call failed'
Settle(i, fetchOk) ==
    /\ inflight[i].stage = "awaiting"
    /\ inflight' = [inflight EXCEPT
            ![i].stage = "done",
            ![i].fetchOk = fetchOk,
            ![i].result =
                Result(IF fetchOk THEN "report"
                       ELSE IF catchesErrors(variant) THEN "errorText" ELSE "raised",
                       IF fetchOk THEN "" ELSE "API call failed",
                       inflight[i].selection, <<>>, reportedRequest(inflight, i))]
    /\ UNCHANGED <<variant, token, phase, apiSpec, baseUrl, tools, call, outcome, conversion>>

SettleCall == \E i \in Slots, fetchOk \in BOOLEAN : Settle(i, fetchOk)

\* the result goes back to the client
Deliver ==
    /\ \E i \in Slots :
        /\ inflight[i].stage = "done"
        /\ inflight' = [inflight EXCEPT ![i] = Idle]
    /\ UNCHANGED <<variant, token, phase, apiSpec, baseUrl, tools, call, outcome, conversion>>

NextConcurrent == LoadReference \/ Connect \/ BeginCall \/ SettleCall \/ Deliver

SpecConcurrent == Init /\ [][NextConcurrent]_vars

-----------------------------------------------------------------------------
(* Properties                                                              *)

\* the visited operations of the loaded document
LoadedOperations ==
    IF ~apiSpec.isNull /\ apiSpec.hasPaths THEN Operations(apiSpec.paths) ELSE <<>>

\* the operation tools of the catalog (every descriptor but batch_operations)
OperationDescriptors == SelectSeq(tools, LAMBDA d : d.method # <<>>)

\* C1: invoking a name taken from the catalog selects the operation that
\* name was listed (or registered) for and never ends in 'Tool "..." not
\* found': the catalog's name of an operation is the name the dispatcher
\* recomputes for it.
C1_CatalogNameDispatches ==
    (call.received /\ Truthy(call.args)
        /\ \E i \in 1..Len(OperationDescriptors) : OperationDescriptors[i].name = call.name)
    => /\ outcome.error # "Tool not found"
       /\ outcome.selection.found
       /\ \E i \in 1..Len(OperationDescriptors) :
            /\ OperationDescriptors[i].name = call.name
            /\ OperationDescriptors[i].path = outcome.selection.path
            /\ OperationDescriptors[i].method = outcome.selection.method

\* C2: requests are served only after a successful load: a connected
\* server holds a parsed document and the base URL of its first server, an
\* invocation is only ever handled by a connected server, and a server
\* whose load failed stays aborted, so it never connects or serves.
C2_ServedOnlyAfterLoad ==
    /\ [](/\ phase = "connected" =>
                /\ ~apiSpec.isNull
                /\ apiSpec.servers # <<>>
                /\ baseUrl = apiSpec.servers[1]
          /\ call.received => phase = "connected"
          /\ phase \in {"constructed", "aborted"} => ~call.received /\ tools = <<>>)
    /\ [][phase = "aborted" => phase' = "aborted" /\ ~call'.received]_vars
    /\ [][phase' = "connected" => phase \in {"loaded", "connected"}]_vars

\* an invocation was dispatched as an HTTP request by a connected server
C2_Witness ==
    /\ phase = "connected"
    /\ call.received
    /\ outcome.kind = "report"
    /\ outcome.request.sent

\* the operation the handled invocation selected
SelectedOperation ==
    LoadedOperations[CHOOSE i \in 1..Len(LoadedOperations) :
        /\ LoadedOperations[i].path = outcome.selection.path
        /\ LoadedOperations[i].method = outcome.selection.method]

\* the parameters and headers the handler decoded from the invocation
DecodedParameters == decodeArguments(variant, apiSpec, call.name, call.args)

DecodedHeaders == decodeHeaders(variant, call.args)

\* details holds a message with this text about this name
C3_Reports(text, name) ==
    \E k \in 1..Len(outcome.details) :
        /\ outcome.details[k].text = text
        /\ outcome.details[k].arg = name \/ includes(outcome.details[k].arg, name)

\* the required parameter `name` is missing from the supplied section
C3_Missing(section, name) == ~Truthy(section) \/ ~Truthy(Get(section, name))

\* the declared parameter has a schema and the invocation supplies a value for it
C3_Checked(parameter) ==
    /\ ~parameter.isRef
    /\ parameter.schema.present
    /\ suppliedValue(parameter, DecodedParameters, DecodedHeaders) # JsUndefined

\* the supplied value is one of the schema's enum values (when it has any)
C3_InEnum(parameter) ==
    \/ parameter.schema.enum = <<>>
    \/ \E k \in 1..Len(parameter.schema.enum) :
            parameter.schema.enum[k] = suppliedValue(parameter, DecodedParameters, DecodedHeaders)

\* the value passes for the schema type: a number or a string of digits for
\* 'number', a boolean or 'true'/'false' for 'boolean', a string for 'string'
C3_OfType(value, type) ==
    CASE type = "number"  -> value.t = "number" \/ ~isNaNNumber(value)
      [] type = "boolean" -> value.t = "boolean" \/ value \in {JsStr(<<"t","r","u","e">>), JsStr(<<"f","a","l","s","e">>)}
      [] type = "string"  -> value.t = "string"
      [] OTHER            -> TRUE

\* the checks the invocation violates, each with the message it calls for:
\* required path and query parameters, the request body, required headers,
\* and the enum and type of a declared parameter
C3_Violations ==
    LET o == SelectedOperation
        p == DecodedParameters
        pathRequired  == extractPathParameters(variant, o.op, o.path).required
        queryRequired == extractQueryParameters(variant, o.op).required
        declared      == o.op.parameters
    IN  {<<IF Truthy(p.path) THEN "Missing required path parameter: "
           ELSE "Missing required path parameters: ", pathRequired[i]>> :
            i \in {j \in 1..Len(pathRequired) : C3_Missing(p.path, pathRequired[j])}}
        \cup
        {<<IF Truthy(p.query) THEN "Missing required query parameter: "
           ELSE "Missing required query parameters: ", queryRequired[i]>> :
            i \in {j \in 1..Len(queryRequired) : C3_Missing(p.query, queryRequired[j])}}
        \cup
        (IF hasRequestBodySchema(o.op) /\ ~Truthy(p.body)
         THEN {<<"Missing required request body", <<>> >>} ELSE {})
        \cup
        {<<"Missing required header: ", declared[i].name>> :
            i \in {j \in 1..Len(declared) :
                    /\ ~declared[j].isRef /\ declared[j].in = "header" /\ declared[j].required
                    /\ ~Truthy(Get(DecodedHeaders, declared[j].name))
                    /\ ~Truthy(Get(DecodedHeaders, toLowerCase(declared[j].name)))}}
        \cup
        {<<"Invalid value for parameter: ", declared[i].name>> :
            i \in {j \in 1..Len(declared) :
                    /\ C3_Checked(declared[j])
                    /\ ~C3_InEnum(declared[j])}}
        \cup
        {<<"Invalid type for parameter: ", declared[i].name>> :
            i \in {j \in 1..Len(declared) :
                    /\ C3_Checked(declared[j])
                    /\ C3_InEnum(declared[j])
                    /\ ~C3_OfType(suppliedValue(declared[j], DecodedParameters, DecodedHeaders),
                                  declared[j].schema.type)}}

\* C3: when the validator finds a violation no HTTP request is issued and
\* the result is {error: 'Parameter validation failed', details}, details
\* holding a message for every violated check, not only the first; without
\* a violation the invocation is dispatched.
C3_ValidationReportsEveryViolation ==
    (variant = "validating" /\ call.received /\ outcome.selection.found)
    => /\ (C3_Violations # {}) <=> (outcome.kind = "validation")
       /\ outcome.kind = "validation" =>
            /\ ~outcome.request.sent
            /\ outcome.error = "Parameter validation failed"
            /\ \A violation \in C3_Violations : C3_Reports(violation[1], violation[2])
       /\ outcome.kind # "validation" => outcome.request.sent /\ outcome.details = <<>>

\* an invocation that violates two checks of different kinds and is
\* answered with both messages and no request
C3_Witness ==
    /\ variant = "validating"
    /\ outcome.kind = "validation"
    /\ ~outcome.request.sent
    /\ Cardinality({violation[1] : violation \in C3_Violations}) >= 2
    /\ Len(outcome.details) >= 2

\* C4: every failure while handling an invocation is delivered as an error
\* result (text 'Error: ...' or the structured payload); the handler never
\* raises.
C4_HandlerNeverRaises ==
    call.received => outcome.kind \in {"report", "validation", "errorText"}

\* the positions of the loaded operations whose recomputed name is the
\* requested one
C5_Matches ==
    {i \in 1..Len(LoadedOperations) :
        generatedToolName(variant, LoadedOperations[i].method, LoadedOperations[i].path,
                          LoadedOperations[i].op) = call.name}

\* C5: the dispatcher selects the first operation, in document order, whose
\* recomputed name equals the requested name, also when several operations
\* derive that name; when none does it fails with 'Tool "<name>" not found'
\* and issues no HTTP request.
C5_FirstMatchSelected ==
    (call.received /\ apiSpec.hasPaths /\ (catchesErrors(variant) => Truthy(call.args)))
    => IF C5_Matches = {}
       THEN /\ outcome.error = "Tool not found"
            /\ outcome.kind \in {"errorText", "raised"}
            /\ ~outcome.selection.found
            /\ ~outcome.request.sent
       ELSE /\ outcome.selection.found
            /\ \E i \in C5_Matches :
                /\ \A j \in C5_Matches : i <= j
                /\ LoadedOperations[i].path = outcome.selection.path
                /\ LoadedOperations[i].method = outcome.selection.method

\* two operations derive the requested name and one of them was selected
C5_Witness ==
    /\ call.received
    /\ Cardinality(C5_Matches) >= 2
    /\ outcome.selection.found
    /\ outcome.request.sent

\* C6: the names of the catalog the ListTools handler returns are unique: no
\* two descriptors carry the same name.
C6_CatalogNamesUnique ==
    ~registersTools(variant) =>
        \A i, j \in 1..Len(tools) : i # j => tools[i].name # tools[j].name

\* whether the catalog has been built: at startup where the server registers
\* its tools, by the first ListTools request elsewhere
CatalogBuilt ==
    IF registersTools(variant) THEN phase \in {"loaded", "connected"} ELSE tools # <<>>

\* how many descriptors the catalog holds for the operation o
DescriptorsOf(o) ==
    Cardinality({i \in 1..Len(tools) :
                    tools[i].path = o.path /\ tools[i].method = o.method})

C8_TemplateTokensRequired ==
    variant # "basic" =>
        \A i \in 1..Len(LoadedOperations) :
            LET o == LoadedOperations[i]
                schema == extractPathParameters(variant, o.op, o.path)
                tokens == matchTokens(o.path)
            IN  \A k \in 1..Len(tokens) :
                    /\ Has(Keys(schema.properties), tokens[k])
                    /\ Has(schema.required, tokens[k])

\* the URL of the request for the decoded parameters: the path with its
\* tokens substituted, then '?' and the URL-encoded query entries, those
\* with a falsy value left out when omitFalsy
C9_Url(omitFalsy) ==
    LET p == DecodedParameters
        target == baseUrl \o outcome.selection.path
        substituted == IF Truthy(p.path) THEN substitutePath(target, p.path.e) ELSE target
        entries == IF ~Truthy(p.query) THEN <<>>
                   ELSE IF omitFalsy THEN SelectSeq(p.query.e, LAMBDA en : Truthy(en.val))
                   ELSE p.query.e
        pairs == [i \in 1..Len(entries) |-> Entry(entries[i].key, JsString(entries[i].val))]
    IN  IF pairs = <<>> THEN substituted
        ELSE substituted \o <<"?">> \o searchParamsToString(pairs)

\* C9 as stated: the query parameters with a truthy value are appended
\* URL-encoded to the request URL and those with a falsy value (0, '',
\* false) are omitted.
C9_FalsyQueryOmitted ==
    outcome.request.sent => outcome.request.url = C9_Url(TRUE)

\* C9, amended: the flat, registered and agent versions append the query
\* parameters whose value is truthy and omit the others; the validating and
\* the basic version append every query parameter, a falsy value included
\* ({page: 0} gives '?page=0').
C9_QueryAppendedPerVersion ==
    outcome.request.sent =>
        outcome.request.url = C9_Url(variant \in {"flat", "registered", "agent"})

\* a request of the validating or the basic version whose URL carries a
\* query parameter with the value 0
C9_Witness ==
    /\ variant \in {"validating", "basic"}
    /\ outcome.request.sent
    /\ Get(DecodedParameters.query, <<"p","a","g","e">>) = JsNum(0)
    /\ includes(outcome.request.url, <<"p","a","g","e","=","0">>)

\* the body the invocation supplies: the rest of the flat arguments, or the
\* body (else the parameters) entry of the nested ones
C10_SuppliedBody ==
    IF variant = "flat" THEN DecodedParameters.body
    ELSE IF Get(call.args, <<"b","o","d","y">>) # JsUndefined THEN Get(call.args, <<"b","o","d","y">>)
    ELSE Get(call.args, <<"p","a","r","a","m","e","t","e","r","s">>)

\* C10: the request carries a JSON-serialized body and the header
\* Content-Type: application/json exactly when the invocation supplies a
\* body and the verb of the selected operation is one the version sends a
\* body for.
C10_BodyExactlyWhenSupplied ==
    outcome.request.sent =>
        LET expected == /\ C10_SuppliedBody # JsUndefined
                        /\ outcome.request.method \in bodyMethods(variant)
        IN  /\ outcome.request.hasBody <=> expected
            /\ Has(Keys(outcome.request.headers), <<"C","o","n","t","e","n","t","-","T","y","p","e">>) <=> expected
            /\ expected =>
                /\ outcome.request.body = stringify(C10_SuppliedBody)
                /\ Get(JsObj(outcome.request.headers), <<"C","o","n","t","e","n","t","-","T","y","p","e">>)
                        = JsStr(<<"a","p","p","l","i","c","a","t","i","o","n","/","j","s","o","n">>)

\* C11: every request handed to fetch carries the header User-Agent:
\* gologin-mcp whatever headers the caller supplied, and, whenever the
\* configured credential is not empty, an Authorization header whose value is
\* the credential verbatim or prefixed with 'Bearer ', not the caller's own
\* Authorization entry.
C11_FixedHeaders ==
    outcome.request.sent =>
        LET sent == JsObj(outcome.request.headers)
        IN  /\ Get(sent, <<"U","s","e","r","-","A","g","e","n","t">>) = JsStr(<<"g","o","l","o","g","i","n","-","m","c","p">>)
            /\ token # <<>> =>
                 Get(sent, <<"A","u","t","h","o","r","i","z","a","t","i","o","n">>)
                    \in {JsStr(token), JsStr(<<"B","e","a","r","e","r"," ">> \o token)}

\* a request of an invocation that supplied an Authorization entry of its
\* own while a credential is configured
C11_Witness ==
    /\ outcome.request.sent
    /\ token # <<>>
    /\ Get(DecodedHeaders, <<"A","u","t","h","o","r","i","z","a","t","i","o","n">>) = JsStr(<<"m","i","n","e">>)
    /\ Get(JsObj(outcome.request.headers), <<"A","u","t","h","o","r","i","z","a","t","i","o","n">>) # JsStr(<<"m","i","n","e">>)

\* the invocation supplies the header `name` under some letter-casing
C12_Supplied(name) ==
    \E k \in 1..Len(DecodedHeaders.e) :
        /\ toLowerCase(DecodedHeaders.e[k].key) = toLowerCase(name)
        /\ Truthy(DecodedHeaders.e[k].val)

\* C12: for an operation the validating dispatcher selected, a required
\* header supplied under any letter-casing of its name is not reported
\* missing, and a required header that is not supplied makes the invocation
\* return the validation payload with 'Missing required header: <name>'
\* without issuing a request.
C12_RequiredHeaderAnyCasing ==
    (variant = "validating" /\ outcome.selection.found) =>
        \A i \in 1..Len(extractRequiredHeaders(SelectedOperation.op.parameters)) :
          LET name == extractRequiredHeaders(SelectedOperation.op.parameters)[i]
          IN
            /\ C12_Supplied(name) => ~C3_Reports("Missing required header: ", name)
            /\ ~C12_Supplied(name) =>
                /\ outcome.kind = "validation"
                /\ C3_Reports("Missing required header: ", name)
                /\ ~outcome.request.sent

\* whether resolution of the pointer fails: it does not start at the
\* document root, or the walk from the root misses one of its segments
C13_Unresolvable(ref) ==
    LET parts == split(ref, "/")
        RECURSIVE reaches(_, _)
        reaches(current, rest) ==
            IF rest = <<>> THEN TRUE
            ELSE /\ IsObject(current)
                 /\ HasKey(current, rest[1])
                 /\ reaches(Get(current, rest[1]), Tail(rest))
    IN  \/ parts[1] # <<"#">>
        \/ ~reaches(documentObject(apiSpec), Tail(parts))

C14_ConversionTotal ==
    conversion.by # "none" => conversion.node # RangeError

RECURSIVE C15_Resolved(_)
\* no object of the value, at any depth, has a $ref key
C15_Resolved(value) ==
    \/ ~IsObject(value)
    \/ /\ ~HasKey(value, <<"$","r","e","f">>)
       /\ \A i \in 1..Len(value.e) : C15_Resolved(value.e[i].val)

\* C15: the node a conversion returns contains no unresolved reference at
\* any depth: neither the node nor anything reachable from it through
\* properties, items or merged allOf attributes has a $ref key.
C15_NoUnresolvedReference ==
    (conversion.by # "none" /\ conversion.node.t # "thrown") =>
        C15_Resolved(conversion.node)

\* the array schema whose items refer to a schema that refers to another
\* one was converted, and the node holds the schema at the end of the chain
C15_Witness ==
    /\ conversion.by = "convert"
    /\ conversion.input = ListSchema
    /\ ~C15_Resolved(conversion.input)
    /\ HasKey(Get(Get(Get(Get(conversion.node, <<"i","t","e","m","s">>), <<"p","r","o","p","e","r","t","i","e","s">>),
                      <<"o","w","n","e","r">>), <<"p","r","o","p","e","r","t","i","e","s">>), <<"i","d">>)

\* what the invocation of slot i does when it is the only one in flight
C16_Alone(i) ==
    handleCall(variant, apiSpec, baseUrl, token, inflight[i].name, inflight[i].args,
               inflight[i].fetchOk)

\* C16: concurrent invocations are independent: in every interleaving each
\* invocation in flight has built the request (URL, method, headers, body)
\* it builds when run alone against the server's document, base URL and
\* credential, and each finished one has the result it has when run alone.
C16_IndependentInvocations ==
    \A i \in Slots :
        /\ inflight[i].stage = "awaiting" => inflight[i].request = C16_Alone(i).request
        /\ inflight[i].stage = "done" => inflight[i].result = C16_Alone(i)

\* two invocations with different requests in flight, the one that began
\* later answered first
C16_Witness ==
    \E i, j \in Slots :
        /\ inflight[i].stage = "awaiting" /\ inflight[i].order = 1
        /\ inflight[j].stage = "done" /\ inflight[j].order = 2
        /\ inflight[j].result.kind = "report"
        /\ inflight[j].result.request.url # inflight[i].request.url

\* the handled conversion merged an allOf and returned the merged node
C17_Merged ==
    /\ conversion.by = "convert"
    /\ mergesAllOf(variant)
    /\ ~HasKey(conversion.input, <<"$","r","e","f">>)
    /\ Truthy(Get(conversion.input, <<"a","l","l","O","f">>))
    /\ conversion.node.t # "thrown"

\* the branches of the merged allOf, each converted on its own
C17_Branches ==
    LET branches == Elements(Get(conversion.input, <<"a","l","l","O","f">>))
    IN  [k \in 1..Len(branches) |->
            convertOpenAPISchemaToJsonSchema(variant, apiSpec, branches[k], MaxStack)]

\* the elements of the array under `key` of a node, none when it is absent
C17_Listed(node, key) ==
    IF Truthy(Get(node, key)) THEN Elements(Get(node, key)) ELSE <<>>

\* C17: the properties of a merged allOf node are exactly the union of the
\* property names of its branches, and its required list contains every
\* name a branch requires exactly once.
C17_MergeUnions ==
    C17_Merged =>
        LET merged   == conversion.node
            required == C17_Listed(merged, <<"r","e","q","u","i","r","e","d">>)
        IN  /\ {Get(merged, <<"p","r","o","p","e","r","t","i","e","s">>).e[i].key :
                    i \in 1..Len(Get(merged, <<"p","r","o","p","e","r","t","i","e","s">>).e)}
                = UNION {{Get(C17_Branches[k], <<"p","r","o","p","e","r","t","i","e","s">>).e[i].key :
                            i \in 1..Len(Get(C17_Branches[k], <<"p","r","o","p","e","r","t","i","e","s">>).e)} :
                         k \in 1..Len(C17_Branches)}
            /\ {required[i] : i \in 1..Len(required)}
                = UNION {{C17_Listed(C17_Branches[k], <<"r","e","q","u","i","r","e","d">>)[i] :
                            i \in 1..Len(C17_Listed(C17_Branches[k], <<"r","e","q","u","i","r","e","d">>))} :
                         k \in 1..Len(C17_Branches)}
            /\ \A i, j \in 1..Len(required) : i # j => required[i] # required[j]

\* the branches that define the attribute, in allOf order
C18_Defining(attribute) ==
    SelectSeq(C17_Branches, LAMBDA branch : HasKey(branch, attribute))

\* C18: for each scalar attribute (enum, format, minimum, maximum, pattern,
\* items) a merged allOf node carries the value of the first branch, in
\* allOf order, that defines the attribute, whatever that value is, and
\* carries none when no branch defines it.
C18_FirstBranchWins ==
    C17_Merged =>
        \A k \in 1..Len(ScalarAttributes) :
            LET attribute == ScalarAttributes[k]
            IN  IF C18_Defining(attribute) = <<>>
                THEN ~HasKey(conversion.node, attribute)
                ELSE Get(conversion.node, attribute)
                        = Get(C18_Defining(attribute)[1], attribute)

\* the first of the values that is present, undefined when none is
C19_First(values) ==
    IF SelectSeq(values, LAMBDA value : value # JsUndefined) = <<>> THEN JsUndefined
    ELSE SelectSeq(values, LAMBDA value : value # JsUndefined)[1]

\* C19: the type and the description of a merged allOf node are those the
\* combination declares itself; when it declares no type (no description)
\* the node has the type (the description) of the first branch that
\* supplies one.
C19_TypeAndDescription ==
    C17_Merged =>
        /\ Get(conversion.node, <<"t","y","p","e">>)
            = C19_First(<<Get(conversion.input, <<"t","y","p","e">>)>>
                        \o [k \in 1..Len(C17_Branches) |-> Get(C17_Branches[k], <<"t","y","p","e">>)])
        /\ Get(conversion.node, <<"d","e","s","c","r","i","p","t","i","o","n">>)
            = C19_First(<<Get(conversion.input, <<"d","e","s","c","r","i","p","t","i","o","n">>)>>
                        \o [k \in 1..Len(C17_Branches) |->
                                Get(C17_Branches[k], <<"d","e","s","c","r","i","p","t","i","o","n">>)])

RECURSIVE C20_Required(_)
\* every object-typed node of the value, at any depth, has a required list
C20_Required(value) ==
    \/ ~IsObject(value)
    \/ /\ Get(value, <<"t","y","p","e">>) = JsStr(<<"o","b","j","e","c","t">>) => Get(value, <<"r","e","q","u","i","r","e","d">>).t = "array"
       /\ \A i \in 1..Len(value.e) : C20_Required(value.e[i].val)

\* C20: every object-typed node a conversion produces carries a required
\* list (empty when none is declared): plain schemas, allOf merges, nested
\* property nodes and the generic node put in for an unresolvable
\* reference.
C20_ObjectNodesCarryRequired ==
    (conversion.by # "none" /\ conversion.node.t # "thrown") =>
        C20_Required(conversion.node)

\* C21: in the validation schema built from an object node, a key is optional
\* exactly when the node's required list does not hold it, and mandatory
\* exactly when it does; for the body at every nesting depth and for the
\* path and query sections.
RECURSIVE C21_KeysFollowRequired(_, _)
C21_KeysFollowRequired(node, zodSchema) ==
    IF zodSchema.kind = "object"
    THEN \A i \in 1..Len(zodSchema.shape) :
            LET key == zodSchema.shape[i].key
                listed ==
                    /\ Truthy(Get(node, <<"r","e","q","u","i","r","e","d">>))
                    /\ Has(Elements(Get(node, <<"r","e","q","u","i","r","e","d">>)), JsStr(key))
            IN  /\ zodSchema.shape[i].val.optional <=> ~listed
                /\ C21_KeysFollowRequired(Get(Get(node, <<"p","r","o","p","e","r","t","i","e","s">>), key),
                                          zodSchema.shape[i].val)
    ELSE IF zodSchema.kind = "array" /\ Truthy(Get(node, <<"i","t","e","m","s">>))
    THEN C21_KeysFollowRequired(Get(node, <<"i","t","e","m","s">>), zodSchema.element[1])
    ELSE TRUE

\* the keys of a path (or query) section against the section's required list
C21_SectionFollowsRequired(parameters, section) ==
    \A i \in 1..Len(section.shape) :
        section.shape[i].val.optional <=> ~Has(parameters.required, section.shape[i].key)

C21_Built == conversion.by = "buildInputSchema" /\ conversion.node.t = "zod"

C21_Section(name) ==
    conversion.node.shape[CHOOSE i \in 1..Len(conversion.node.shape) :
                             conversion.node.shape[i].key = name].val

C21_HasSection(name) ==
    \E i \in 1..Len(conversion.node.shape) : conversion.node.shape[i].key = name

C21_OptionalIffNotRequired ==
    C21_Built =>
        LET o == conversion.input.operation
        IN  /\ C21_HasSection(<<"b","o","d","y">>) =>
                 C21_KeysFollowRequired(
                    extractRequestBodySchema(variant, apiSpec, o.op, conversion.input.schema),
                    C21_Section(<<"b","o","d","y">>))
            /\ C21_HasSection(<<"p","a","t","h">>) =>
                 C21_SectionFollowsRequired(extractPathParameters(variant, o.op, o.path),
                                            C21_Section(<<"p","a","t","h">>))
            /\ C21_HasSection(<<"q","u","e","r","y">>) =>
                 C21_SectionFollowsRequired(extractQueryParameters(variant, o.op),
                                            C21_Section(<<"q","u","e","r","y">>))

\* C22: each section (path, query, body, headers) is listed as required on
\* the composite input schema exactly when the section's own list of
\* required parameters is not empty; the query section as soon as one query
\* parameter is required.
C22_Sections == {<<"p","a","t","h">>, <<"q","u","e","r","y">>, <<"b","o","d","y">>, <<"h","e","a","d","e","r","s">>}

\* the section's own required list, as the extractors give it
C22_OwnRequired(section) ==
    LET o == conversion.input.operation
        bodySchema == extractRequestBodySchema(variant, apiSpec, o.op, conversion.input.schema)
    IN  CASE section = <<"p","a","t","h">>  -> extractPathParameters(variant, o.op, o.path).required
          [] section = <<"q","u","e","r","y">> -> extractQueryParameters(variant, o.op).required
          [] section = <<"b","o","d","y">>  ->
                IF Truthy(bodySchema) /\ Truthy(Get(bodySchema, <<"r","e","q","u","i","r","e","d">>))
                THEN [i \in 1..Len(Get(bodySchema, <<"r","e","q","u","i","r","e","d">>).e) |->
                        Get(bodySchema, <<"r","e","q","u","i","r","e","d">>).e[i].val.s]
                ELSE <<>>
          [] OTHER -> extractRequiredHeaders(o.op.parameters)

\* whether the composite schema makes the section mandatory: by its required
\* list, or by a key of the raw shape that is not wrapped optional
C22_ListedRequired(section) ==
    IF conversion.node.t = "zod"
    THEN \E i \in 1..Len(conversion.node.shape) :
            /\ conversion.node.shape[i].key = section
            /\ ~conversion.node.shape[i].val.optional
    ELSE Has(Elements(Get(conversion.node, <<"r","e","q","u","i","r","e","d">>)), JsStr(section))

C22_SectionRequiredIffOwnRequired ==
    (/\ conversion.by = "buildInputSchema"
     /\ variant # "flat"
     /\ conversion.node.t # "thrown") =>
        \A section \in C22_Sections :
            C22_ListedRequired(section) <=> C22_OwnRequired(section) # <<>>

\* C23: for each declared path, query or header parameter whose value is
\* supplied, the validator reports a violation exactly when the value is no
\* member of the declared enum or is not compatible with the declared
\* primitive type (string, number, integer, boolean); a number or a boolean
\* given as its string representation is compatible.
C23_Numeral(value) ==
    /\ value.t = "string"
    /\ value.s # <<>>
    /\ \A i \in 1..Len(value.s) : value.s[i] \in DigitChars

C23_Compatible(value, type) ==
    CASE type = "string"  -> value.t = "string"
      [] type \in {"number", "integer"} -> value.t = "number" \/ C23_Numeral(value)
      [] type = "boolean" -> value.t = "boolean" \/ value \in {JsStr(<<"t","r","u","e">>), JsStr(<<"f","a","l","s","e">>)}
      [] OTHER            -> TRUE

C23_Reported(name) ==
    \E k \in 1..Len(outcome.details) :
        /\ outcome.details[k].text \in {"Invalid value for parameter: ",
                                        "Invalid type for parameter: "}
        /\ outcome.details[k].arg = name

C23_ValueCheckedExactly ==
    (variant = "validating" /\ call.received /\ outcome.selection.found) =>
        \A i \in 1..Len(SelectedOperation.op.parameters) :
            LET parameter == SelectedOperation.op.parameters[i]
                value == suppliedValue(parameter, DecodedParameters, DecodedHeaders)
            IN  C3_Checked(parameter) =>
                    (C23_Reported(parameter.name) <=>
                        \/ ~C3_InEnum(parameter)
                        \/ ~C23_Compatible(value, parameter.schema.type))

-----------------------------------------------------------------------------
(* C24 *)

\* C24: once the document is loaded, no step of the server (listing the
\* catalog, an invocation with its validation and dispatch, a batch, the
\* answer) changes the stored document or the base URL.
C24_SnapshotImmutable ==
    [][(phase \in {"loaded", "connected"}) => apiSpec' = apiSpec /\ baseUrl' = baseUrl]_vars

\* a batch has dispatched requests on the loaded document after the catalog
\* was listed from it
C24_Witness ==
    /\ phase = "connected"
    /\ tools # <<>>
    /\ call.received
    /\ outcome.kind = "batch"
    /\ \E i \in 1..Len(outcome.items) : outcome.items[i].dispatch.request.sent
    /\ apiSpec \in BatchDocuments
    /\ baseUrl = ServerUrl

-----------------------------------------------------------------------------
(* C25 *)

\* the placeholders of the path template the dispatcher selected
C25_Placeholders ==
    LET tokens == matchTokens(outcome.selection.path)
    IN  {<<"{">> \o tokens[i] \o <<"}">> : i \in 1..Len(tokens)}

\* C25: the URL of every request the dispatcher issues contains none of the
\* '{token}' placeholders of the selected path template.
C25_NoPlaceholderInRequest ==
    outcome.request.sent =>
        \A placeholder \in C25_Placeholders : ~includes(outcome.request.url, placeholder)

-----------------------------------------------------------------------------
(* C26 *)

\* the invocation names a tool of the flat catalog of the loaded document
C26_ListedFlatCall ==
    /\ variant = "flat"
    /\ call.received
    /\ Truthy(call.args)
    /\ call.name \in ToolNames(Tools(variant, apiSpec))

\* the declared path and query parameters of operation o that the arguments name
C26_Named(o, in) ==
    {o.op.parameters[i].name : i \in
        {k \in 1..Len(o.op.parameters) :
            /\ ~o.op.parameters[k].isRef
            /\ o.op.parameters[k].in = in
            /\ Get(call.args, o.op.parameters[k].name) # JsUndefined}}

\* C26: in the flat version the decoder resolves, for a listed tool name, the
\* operation the dispatcher resolves for it; the arguments that name its
\* declared path and query parameters are decoded into the path and query
\* maps, and the body holds none of them.
C26_DecoderAgreesWithCatalog ==
    C26_ListedFlatCall =>
        LET ops == LoadedOperations
            dispatched == findOperation(variant, ops, call.name)
        IN  /\ dispatched # 0
            /\ findDecodedOperation(ops, call.name) = dispatched
            /\ \A name \in C26_Named(ops[dispatched], "path") :
                /\ Truthy(DecodedParameters.path)
                /\ Get(DecodedParameters.path, name) # JsUndefined
                /\ ~Truthy(DecodedParameters.body)
                   \/ Get(DecodedParameters.body, name) = JsUndefined
            /\ \A name \in C26_Named(ops[dispatched], "query") :
                /\ Truthy(DecodedParameters.query)
                /\ Get(DecodedParameters.query, name) # JsUndefined
                /\ ~Truthy(DecodedParameters.body)
                   \/ Get(DecodedParameters.body, name) = JsUndefined

-----------------------------------------------------------------------------
(* C27 *)

\* C27: an invocation that reaches an HTTP request or a validation result
\* names a tool of the catalog of the loaded document; in particular a name
\* on the exclusion list reaches neither.
C27_OnlyCatalogToolsInvocable ==
    (call.received /\ (outcome.request.sent \/ outcome.kind = "validation")) =>
        /\ call.name \in ToolNames(Tools(variant, apiSpec))
        /\ call.name \notin excludedTools(variant)

-----------------------------------------------------------------------------
(* C28 *)

\* the items a batch recorded with status 'created' (its count `successful`)
C28_Created ==
    {i \in 1..Len(outcome.items) : outcome.items[i].status = "created"}

\* C28: an item of a batch is recorded as created only if its dispatch
\* issued the HTTP request, and the status of the batch is SUCCESS only if
\* the request of every item was sent.
C28_CreatedOnlyWhenSent ==
    (call.received /\ outcome.kind = "batch") =>
        /\ \A i \in C28_Created : outcome.items[i].dispatch.request.sent
        /\ outcome.status = "SUCCESS" =>
                \A i \in 1..Len(outcome.items) :
                    /\ outcome.items[i].dispatch.request.sent
                    /\ outcome.items[i].dispatch.kind = "report"

-----------------------------------------------------------------------------
(* C29 *)

\* the count a batch was asked for, as a number when it is one
C29_CountInRange ==
    LET count == Get(call.args, <<"c","o","u","n","t">>)
    IN  /\ count.t = "number"
        /\ count.n >= CountMinimum
        /\ count.n <= CountMaximum

\* C29: a create_profiles batch whose count is outside the bounds of the
\* input schema dispatches nothing, one whose count is inside dispatches
\* exactly count times, and no batch dispatches more than the maximum.
C29_CountBoundsHonoured ==
    (/\ call.received
     /\ outcome.kind = "batch"
     /\ Get(call.args, <<"o","p","e","r","a","t","i","o","n">>)
            = JsStr(<<"c","r","e","a","t","e","_","p","r","o","f","i","l","e","s">>)) =>
        /\ Len(outcome.items) <= CountMaximum
        /\ IF C29_CountInRange
           THEN Len(outcome.items) = Get(call.args, <<"c","o","u","n","t">>).n
           ELSE Len(outcome.items) = 0

-----------------------------------------------------------------------------
(* C30 *)

\* C30: after a load that failed the stored document is still null and the
\* base URL still empty; a stored document always comes with its base URL.
C30_FailedLoadStoresNothing ==
    /\ phase = "aborted" => (apiSpec = NullSpec /\ baseUrl = <<>>)
    /\ apiSpec # NullSpec => baseUrl # <<>>

====
